---- MODULE Spec2Model ----
(***************************************************************************)
(* The chat edge function of the AI sales agent: request validation, lead  *)
(* resolution, history load, responder selection (completion service with  *)
(* rule-based fallback), the four persistence writes, and the lead scorer. *)
(* Texts are sequences of one-character strings, so that lower-casing,     *)
(* substring search and label extraction are computed, not assumed.        *)
(***************************************************************************)
EXTENDS Integers, Sequences, FiniteSets, TLC

(* ------------------------------ characters ----------------------------- *)

UpperChars == <<"A","B","C","D","E","F","G","H","I","J","K","L","M","N","O","P","Q","R","S","T","U","V","W","X","Y","Z">>
LowerChars == <<"a","b","c","d","e","f","g","h","i","j","k","l","m","n","o","p","q","r","s","t","u","v","w","x","y","z">>
DigitChars == {"0","1","2","3","4","5","6","7","8","9"}
SpaceChars == {" ", "\n", "\t", "\r"}

Range(s) == {s[i] : i \in 1..Len(s)}

\* String.prototype.toLowerCase, one character
LowerChar(c) ==
  IF \E i \in 1..Len(UpperChars) : UpperChars[i] = c
  THEN LowerChars[CHOOSE i \in 1..Len(UpperChars) : UpperChars[i] = c]
  ELSE c

\* String.prototype.toLowerCase
toLowerCase(s) == [i \in 1..Len(s) |-> LowerChar(s[i])]

\* String.prototype.startsWith(kw, i-1): kw occurs in s at position i
OccursAt(s, kw, i) ==
  /\ i >= 1
  /\ i + Len(kw) - 1 <= Len(s)
  /\ \A j \in 1..Len(kw) : s[i + j - 1] = kw[j]

\* String.prototype.includes
includes(s, kw) == \E i \in 1..(Len(s) + 1) : OccursAt(s, kw, i)

(* --------------------------------- texts ------------------------------- *)

\* every text of the model, with its characters: a state holds the text, an
\* operation on its characters reads them here
TextTable ==
  ("" :> <<>>)
  @@ ("What's the pricing?" :> <<"W","h","a","t","'","s"," ","t","h","e"," ","p","r","i","c","i","n","g","?">>)
  @@ ("I want a demo" :> <<"I"," ","w","a","n","t"," ","a"," ","d","e","m","o">>)
  @@ ("Which features are included" :> <<"W","h","i","c","h"," ","f","e","a","t","u","r","e","s"," ","a","r","e"," ","i","n","c","l","u","d","e","d">>)
  @@ ("Hello there" :> <<"H","e","l","l","o"," ","t","h","e","r","e">>)
  @@ ("Not interested" :> <<"N","o","t"," ","i","n","t","e","r","e","s","t","e","d">>)
  @@ ("Response: Plans start at 999 a month.\nIntent: pricing_inquiry\nConfidence: 0.9\nNext Action: offer_demo" :> <<"R","e","s","p","o","n","s","e",":"," ","P","l","a","n","s"," ","s","t","a","r","t"," ","a","t"," ","9","9","9"," ","a"," ","m","o","n","t","h",".","\n","I","n","t","e","n","t",":"," ","p","r","i","c","i","n","g","_","i","n","q","u","i","r","y","\n","C","o","n","f","i","d","e","n","c","e",":"," ","0",".","9","\n","N","e","x","t"," ","A","c","t","i","o","n",":"," ","o","f","f","e","r","_","d","e","m","o">>)
  @@ ("Happy to help!\nIntent: constructor" :> <<"H","a","p","p","y"," ","t","o"," ","h","e","l","p","!","\n","I","n","t","e","n","t",":"," ","c","o","n","s","t","r","u","c","t","o","r">>)
  @@ ("Response: Sure.\nIntent: spam\nConfidence: 0.5" :> <<"R","e","s","p","o","n","s","e",":"," ","S","u","r","e",".","\n","I","n","t","e","n","t",":"," ","s","p","a","m","\n","C","o","n","f","i","d","e","n","c","e",":"," ","0",".","5">>)
  @@ ("Tell me more about your team." :> <<"T","e","l","l"," ","m","e"," ","m","o","r","e"," ","a","b","o","u","t"," ","y","o","u","r"," ","t","e","a","m",".">>)
  @@ ("pricing_inquiry" :> <<"p","r","i","c","i","n","g","_","i","n","q","u","i","r","y">>)
  @@ ("demo_request" :> <<"d","e","m","o","_","r","e","q","u","e","s","t">>)
  @@ ("feature_inquiry" :> <<"f","e","a","t","u","r","e","_","i","n","q","u","i","r","y">>)
  @@ ("follow_up" :> <<"f","o","l","l","o","w","_","u","p">>)
  @@ ("not_interested" :> <<"n","o","t","_","i","n","t","e","r","e","s","t","e","d">>)
  @@ ("general_inquiry" :> <<"g","e","n","e","r","a","l","_","i","n","q","u","i","r","y">>)
  @@ ("spam" :> <<"s","p","a","m">>)
  @@ ("constructor" :> <<"c","o","n","s","t","r","u","c","t","o","r">>)
  @@ ("offer_demo" :> <<"o","f","f","e","r","_","d","e","m","o">>)
  @@ ("schedule_demo" :> <<"s","c","h","e","d","u","l","e","_","d","e","m","o">>)
  @@ ("share_documentation" :> <<"s","h","a","r","e","_","d","o","c","u","m","e","n","t","a","t","i","o","n">>)
  @@ ("schedule_call" :> <<"s","c","h","e","d","u","l","e","_","c","a","l","l">>)
  @@ ("mark_cold" :> <<"m","a","r","k","_","c","o","l","d">>)
  @@ ("continue_conversation" :> <<"c","o","n","t","i","n","u","e","_","c","o","n","v","e","r","s","a","t","i","o","n">>)
  @@ ("price" :> <<"p","r","i","c","e">>)
  @@ ("pricing" :> <<"p","r","i","c","i","n","g">>)
  @@ ("cost" :> <<"c","o","s","t">>)
  @@ ("how much" :> <<"h","o","w"," ","m","u","c","h">>)
  @@ ("expensive" :> <<"e","x","p","e","n","s","i","v","e">>)
  @@ ("cheap" :> <<"c","h","e","a","p">>)
  @@ ("rate" :> <<"r","a","t","e">>)
  @@ ("fee" :> <<"f","e","e">>)
  @@ ("charge" :> <<"c","h","a","r","g","e">>)
  @@ ("demo" :> <<"d","e","m","o">>)
  @@ ("demonstration" :> <<"d","e","m","o","n","s","t","r","a","t","i","o","n">>)
  @@ ("show me" :> <<"s","h","o","w"," ","m","e">>)
  @@ ("see it" :> <<"s","e","e"," ","i","t">>)
  @@ ("trial" :> <<"t","r","i","a","l">>)
  @@ ("test" :> <<"t","e","s","t">>)
  @@ ("preview" :> <<"p","r","e","v","i","e","w">>)
  @@ ("feature" :> <<"f","e","a","t","u","r","e">>)
  @@ ("functionality" :> <<"f","u","n","c","t","i","o","n","a","l","i","t","y">>)
  @@ ("capability" :> <<"c","a","p","a","b","i","l","i","t","y">>)
  @@ ("can it" :> <<"c","a","n"," ","i","t">>)
  @@ ("does it" :> <<"d","o","e","s"," ","i","t">>)
  @@ ("how does" :> <<"h","o","w"," ","d","o","e","s">>)
  @@ ("what can" :> <<"w","h","a","t"," ","c","a","n">>)
  @@ ("integration" :> <<"i","n","t","e","g","r","a","t","i","o","n">>)
  @@ ("call" :> <<"c","a","l","l">>)
  @@ ("contact" :> <<"c","o","n","t","a","c","t">>)
  @@ ("reach out" :> <<"r","e","a","c","h"," ","o","u","t">>)
  @@ ("follow up" :> <<"f","o","l","l","o","w"," ","u","p">>)
  @@ ("speak" :> <<"s","p","e","a","k">>)
  @@ ("talk" :> <<"t","a","l","k">>)
  @@ ("discuss" :> <<"d","i","s","c","u","s","s">>)
  @@ ("meeting" :> <<"m","e","e","t","i","n","g">>)
  @@ ("schedule" :> <<"s","c","h","e","d","u","l","e">>)
  @@ ("not interested" :> <<"n","o","t"," ","i","n","t","e","r","e","s","t","e","d">>)
  @@ ("no thank" :> <<"n","o"," ","t","h","a","n","k">>)
  @@ ("not now" :> <<"n","o","t"," ","n","o","w">>)
  @@ ("maybe later" :> <<"m","a","y","b","e"," ","l","a","t","e","r">>)
  @@ ("don't need" :> <<"d","o","n","'","t"," ","n","e","e","d">>)
  @@ ("not looking" :> <<"n","o","t"," ","l","o","o","k","i","n","g">>)
  @@ ("Plans start at 999 a month. Intent: pricing_inquiry Confidence: 0.9" :> <<"P","l","a","n","s"," ","s","t","a","r","t"," ","a","t"," ","9","9","9"," ","a"," ","m","o","n","t","h","."," ","I","n","t","e","n","t",":"," ","p","r","i","c","i","n","g","_","i","n","q","u","i","r","y"," ","C","o","n","f","i","d","e","n","c","e",":"," ","0",".","9">>)
  @@ ("Happy to help!" :> <<"H","a","p","p","y"," ","t","o"," ","h","e","l","p","!">>)
  @@ ("Sure. Intent: spam Confidence: 0.5" :> <<"S","u","r","e","."," ","I","n","t","e","n","t",":"," ","s","p","a","m"," ","C","o","n","f","i","d","e","n","c","e",":"," ","0",".","5">>)
  @@ ("Tell me more about your team" :> <<"T","e","l","l"," ","m","e"," ","m","o","r","e"," ","a","b","o","u","t"," ","y","o","u","r"," ","t","e","a","m">>)
  @@ ("Can I get a demo and a price" :> <<"C","a","n"," ","I"," ","g","e","t"," ","a"," ","d","e","m","o"," ","a","n","d"," ","a"," ","p","r","i","c","e">>)
  @@ ("How much does it cost" :> <<"H","o","w"," ","m","u","c","h"," ","d","o","e","s"," ","i","t"," ","c","o","s","t">>)
  @@ ("Show me the demo and the price" :> <<"S","h","o","w"," ","m","e"," ","t","h","e"," ","d","e","m","o"," ","a","n","d"," ","t","h","e"," ","p","r","i","c","e">>)
  @@ ("PRICE, COST AND FEE" :> <<"P","R","I","C","E",","," ","C","O","S","T"," ","A","N","D"," ","F","E","E">>)
  @@ ("price cost demo trial" :> <<"p","r","i","c","e"," ","c","o","s","t"," ","d","e","m","o"," ","t","r","i","a","l">>)
  @@ ("Response: Happy to show you.\nIntent: demo_request\nConfidence: 95\nNext Action: schedule_demo" :> <<"R","e","s","p","o","n","s","e",":"," ","H","a","p","p","y"," ","t","o"," ","s","h","o","w"," ","y","o","u",".","\n","I","n","t","e","n","t",":"," ","d","e","m","o","_","r","e","q","u","e","s","t","\n","C","o","n","f","i","d","e","n","c","e",":"," ","9","5","\n","N","e","x","t"," ","A","c","t","i","o","n",":"," ","s","c","h","e","d","u","l","e","_","d","e","m","o">>)
  @@ ("Happy to show you. Intent: demo_request Confidence: 95" :> <<"H","a","p","p","y"," ","t","o"," ","s","h","o","w"," ","y","o","u","."," ","I","n","t","e","n","t",":"," ","d","e","m","o","_","r","e","q","u","e","s","t"," ","C","o","n","f","i","d","e","n","c","e",":"," ","9","5">>)
  @@ ("Response: We can set that up.\nSuggested next action: call the lead" :> <<"R","e","s","p","o","n","s","e",":"," ","W","e"," ","c","a","n"," ","s","e","t"," ","t","h","a","t"," ","u","p",".","\n","S","u","g","g","e","s","t","e","d"," ","n","e","x","t"," ","a","c","t","i","o","n",":"," ","c","a","l","l"," ","t","h","e"," ","l","e","a","d">>)
  @@ ("We can set that up" :> <<"W","e"," ","c","a","n"," ","s","e","t"," ","t","h","a","t"," ","u","p">>)
  @@ ("call the lead" :> <<"c","a","l","l"," ","t","h","e"," ","l","e","a","d">>)
  @@ ("Thanks for asking. 4. Suggested next action: send the deck" :> <<"T","h","a","n","k","s"," ","f","o","r"," ","a","s","k","i","n","g","."," ","4","."," ","S","u","g","g","e","s","t","e","d"," ","n","e","x","t"," ","a","c","t","i","o","n",":"," ","s","e","n","d"," ","t","h","e"," ","d","e","c","k">>)
  @@ ("Thanks for asking" :> <<"T","h","a","n","k","s"," ","f","o","r"," ","a","s","k","i","n","g">>)
  @@ ("send the deck" :> <<"s","e","n","d"," ","t","h","e"," ","d","e","c","k">>)
  @@ ("Response: Think about your next\naction: a short call.\nSuggested next action: book a call" :> <<"R","e","s","p","o","n","s","e",":"," ","T","h","i","n","k"," ","a","b","o","u","t"," ","y","o","u","r"," ","n","e","x","t","\n","a","c","t","i","o","n",":"," ","a"," ","s","h","o","r","t"," ","c","a","l","l",".","\n","S","u","g","g","e","s","t","e","d"," ","n","e","x","t"," ","a","c","t","i","o","n",":"," ","b","o","o","k"," ","a"," ","c","a","l","l">>)
  @@ ("Think about your next action: a short call" :> <<"T","h","i","n","k"," ","a","b","o","u","t"," ","y","o","u","r"," ","n","e","x","t"," ","a","c","t","i","o","n",":"," ","a"," ","s","h","o","r","t"," ","c","a","l","l">>)
  @@ ("book a call" :> <<"b","o","o","k"," ","a"," ","c","a","l","l">>)
  @@ ("What are your pricing plans?" :> <<"W","h","a","t"," ","a","r","e"," ","y","o","u","r"," ","p","r","i","c","i","n","g"," ","p","l","a","n","s","?">>)
  @@ ("Yes, I would like to schedule a demo" :> <<"Y","e","s",","," ","I"," ","w","o","u","l","d"," ","l","i","k","e"," ","t","o"," ","s","c","h","e","d","u","l","e"," ","a"," ","d","e","m","o">>)
  @@ ("Does your platform integrate with Salesforce?" :> <<"D","o","e","s"," ","y","o","u","r"," ","p","l","a","t","f","o","r","m"," ","i","n","t","e","g","r","a","t","e"," ","w","i","t","h"," ","S","a","l","e","s","f","o","r","c","e","?">>)
  @@ ("Can someone from your team call me tomorrow?" :> <<"C","a","n"," ","s","o","m","e","o","n","e"," ","f","r","o","m"," ","y","o","u","r"," ","t","e","a","m"," ","c","a","l","l"," ","m","e"," ","t","o","m","o","r","r","o","w","?">>)
  @@ ("Actually, I am not interested right now" :> <<"A","c","t","u","a","l","l","y",","," ","I"," ","a","m"," ","n","o","t"," ","i","n","t","e","r","e","s","t","e","d"," ","r","i","g","h","t"," ","n","o","w">>)
  @@ ("Intent: follow_up\nConfidence: 0.8" :> <<"I","n","t","e","n","t",":"," ","f","o","l","l","o","w","_","u","p","\n","C","o","n","f","i","d","e","n","c","e",":"," ","0",".","8">>)
  @@ ("Next Action: send the deck" :> <<"N","e","x","t"," ","A","c","t","i","o","n",":"," ","s","e","n","d"," ","t","h","e"," ","d","e","c","k">>)

\* the characters of a text
Chars(s) == TextTable[s]

\* the text with these characters
Str(t) == CHOOSE s \in DOMAIN TextTable : TextTable[s] = t

(* --------------------------- intent classifier ------------------------- *)

\* the keyword table of detectIntentRuleBased, in table order
intents == <<
  [intent |-> "pricing_inquiry",
   keywords |-> <<
     <<"p","r","i","c","e">>,
     <<"p","r","i","c","i","n","g">>,
     <<"c","o","s","t">>,
     <<"h","o","w"," ","m","u","c","h">>,
     <<"e","x","p","e","n","s","i","v","e">>,
     <<"c","h","e","a","p">>,
     <<"r","a","t","e">>,
     <<"f","e","e">>,
     <<"c","h","a","r","g","e">>>>],
  [intent |-> "demo_request",
   keywords |-> <<
     <<"d","e","m","o">>,
     <<"d","e","m","o","n","s","t","r","a","t","i","o","n">>,
     <<"s","h","o","w"," ","m","e">>,
     <<"s","e","e"," ","i","t">>,
     <<"t","r","i","a","l">>,
     <<"t","e","s","t">>,
     <<"p","r","e","v","i","e","w">>>>],
  [intent |-> "feature_inquiry",
   keywords |-> <<
     <<"f","e","a","t","u","r","e">>,
     <<"f","u","n","c","t","i","o","n","a","l","i","t","y">>,
     <<"c","a","p","a","b","i","l","i","t","y">>,
     <<"c","a","n"," ","i","t">>,
     <<"d","o","e","s"," ","i","t">>,
     <<"h","o","w"," ","d","o","e","s">>,
     <<"w","h","a","t"," ","c","a","n">>,
     <<"i","n","t","e","g","r","a","t","i","o","n">>>>],
  [intent |-> "follow_up",
   keywords |-> <<
     <<"c","a","l","l">>,
     <<"c","o","n","t","a","c","t">>,
     <<"r","e","a","c","h"," ","o","u","t">>,
     <<"f","o","l","l","o","w"," ","u","p">>,
     <<"s","p","e","a","k">>,
     <<"t","a","l","k">>,
     <<"d","i","s","c","u","s","s">>,
     <<"m","e","e","t","i","n","g">>,
     <<"s","c","h","e","d","u","l","e">>>>],
  [intent |-> "not_interested",
   keywords |-> <<
     <<"n","o","t"," ","i","n","t","e","r","e","s","t","e","d">>,
     <<"n","o"," ","t","h","a","n","k">>,
     <<"n","o","t"," ","n","o","w">>,
     <<"m","a","y","b","e"," ","l","a","t","e","r">>,
     <<"d","o","n","'","t"," ","n","e","e","d">>,
     <<"n","o","t"," ","l","o","o","k","i","n","g">>>>]>>

\* confidence in hundredths: Math.min(0.95, matches.length * 0.3 + 0.5)
MatchConfidence(k) == IF 30 * k + 50 < 95 THEN 30 * k + 50 ELSE 95

\* the keywords of table row i that occur in the lower-cased message
Matches(lowerMessage, i) ==
  LET Hit(kw) == includes(lowerMessage, kw)
  IN SelectSeq(intents[i].keywords, Hit)

RECURSIVE IntentLoop_lastWins(_, _, _)
\* a loop in which a later row of the table takes a tie
IntentLoop_lastWins(lowerMessage, i, acc) ==
  IF i > Len(intents) THEN acc
  ELSE LET matches == Matches(lowerMessage, i)
           confidence == MatchConfidence(Len(matches))
       IN IF Len(matches) > 0 /\ confidence >= acc.maxConfidence
          THEN IntentLoop_lastWins(lowerMessage, i + 1,
                 [maxConfidence |-> confidence,
                  detectedIntent |-> intents[i].intent,
                  matchedKeywords |-> matches])
          ELSE IntentLoop_lastWins(lowerMessage, i + 1, acc)

RECURSIVE IntentLoop(_, _, _)
\* the for loop of detectIntentRuleBased from table row i on
IntentLoop(lowerMessage, i, acc) ==
  IF i > Len(intents) THEN acc
  ELSE LET matches == Matches(lowerMessage, i)
           confidence == MatchConfidence(Len(matches))
       IN IF Len(matches) > 0 /\ confidence > acc.maxConfidence
          THEN IntentLoop(lowerMessage, i + 1,
                 [maxConfidence |-> confidence,
                  detectedIntent |-> intents[i].intent,
                  matchedKeywords |-> matches])
          ELSE IntentLoop(lowerMessage, i + 1, acc)

\* detectIntentRuleBased(message): {intent, confidence, keywords}
detectIntentRuleBased(message) ==
  LET r == IntentLoop(toLowerCase(Chars(message)), 1,
             [maxConfidence |-> 0, detectedIntent |-> "general_inquiry",
              matchedKeywords |-> << >>])
  IN [intent |-> r.detectedIntent,
      confidence |-> IF r.maxConfidence # 0 THEN r.maxConfidence ELSE 60,
      keywords |-> [i \in 1..Len(r.matchedKeywords) |-> Str(r.matchedKeywords[i])]]

\* the user messages of the model
M_pricing == "What's the pricing?"
M_demo == "I want a demo"
M_feature == "Which features are included"
M_hello == "Hello there"
M_not_interested == "Not interested"

M_tie == "Can I get a demo and a price"
M_two == "How much does it cost"
M_later == "Show me the demo and the price"
M_upper == "PRICE, COST AND FEE"
M_captie == "price cost demo trial"
\* the messages of Examples 1-5 of the API guide
M_guide1 == "What are your pricing plans?"
M_guide2 == "Yes, I would like to schedule a demo"
M_guide3 == "Does your platform integrate with Salesforce?"
M_guide4 == "Can someone from your team call me tomorrow?"
M_guide5 == "Actually, I am not interested right now"

GuideMessages == <<M_guide1, M_guide2, M_guide3, M_guide4, M_guide5>>

Messages ==
  {M_pricing, M_demo, M_feature, M_hello, M_not_interested,
   M_tie, M_two, M_later, M_upper, M_captie,
   M_guide1, M_guide2, M_guide3, M_guide4, M_guide5}

\* detectIntentRuleBased of every message of the model
Classified == [m \in Messages |-> detectIntentRuleBased(m)]

(* ------------------------- JavaScript object lookup -------------------- *)

KnownIntents == {"pricing_inquiry", "demo_request", "feature_inquiry",
                 "follow_up", "not_interested", "general_inquiry"}

\* lower-case \w+ names every object literal inherits from Object.prototype
ObjectPrototypeKeys == {"constructor", "__proto__"}

\* a function or object value where a string or number was expected
JsInherited == "[inherited from Object.prototype]"

(* ------------------------------- responders ---------------------------- *)

\* generateRuleBasedResponse(intent, lead): the template chosen and the name
\* interpolated into it; an inherited key is truthy and is returned itself
generateRuleBasedResponse(intent, lead) ==
  IF intent \in KnownIntents THEN [template |-> intent, name |-> lead.name]
  ELSE IF intent \in ObjectPrototypeKeys THEN [inherited |-> intent]
  ELSE [template |-> "general_inquiry", name |-> lead.name]

\* the actions table of determineNextAction
actions == [
  pricing_inquiry |-> "offer_demo",
  demo_request |-> "schedule_demo",
  feature_inquiry |-> "share_documentation",
  follow_up |-> "schedule_call",
  not_interested |-> "mark_cold",
  general_inquiry |-> "continue_conversation"]

\* determineNextAction(intent)
determineNextAction(intent) ==
  IF intent \in DOMAIN actions THEN actions[intent]
  ELSE IF intent \in ObjectPrototypeKeys THEN JsInherited
  ELSE actions["general_inquiry"]

(* --------------------------------- scorer ------------------------------ *)

\* the number NaN (a score that is not a number), outside every integer used
NaN == -1000000

\* SQL NULL / JSON null in a numeric column or field
Null == -2000000

\* the intentScores table of calculateLeadScore
intentScores == [pricing_inquiry |-> 15, demo_request |-> 25, feature_inquiry |-> 10,
                 follow_up |-> 20, not_interested |-> -30, general_inquiry |-> 5]

Min(a, b) == IF a < b THEN a ELSE b
Max(a, b) == IF a > b THEN a ELSE b

\* lead.lead_score || 0
PreviousScore(lead) ==
  IF lead.lead_score \in {Null, NaN, 0} THEN 0 ELSE lead.lead_score

\* a scorer whose engagement bonus has no cap
calculateLeadScore_uncapped(lead, messageCount, intent) ==
  IF intent \in ObjectPrototypeKeys
  THEN NaN
  ELSE LET delta == IF intent \in DOMAIN intentScores THEN intentScores[intent] ELSE 5
           score == PreviousScore(lead) + delta + messageCount * 3
       IN Max(0, Min(100, score))

\* calculateLeadScore(lead, messageCount, intent)
calculateLeadScore(lead, messageCount, intent) ==
  IF intent \in ObjectPrototypeKeys
  THEN NaN   \* score += a function: string concatenation, Math.min gives NaN
  ELSE LET delta == IF intent \in DOMAIN intentScores THEN intentScores[intent] ELSE 5
           score == PreviousScore(lead) + delta + Min(messageCount * 3, 20)
       IN Max(0, Min(100, score))

\* a status that follows the score bands even for not_interested
determineLeadStatus_bandsOnly(score, intent) ==
  IF score # NaN /\ score >= 70 THEN "hot"
  ELSE IF score # NaN /\ score >= 40 THEN "warm" ELSE "cold"

\* a status function that converts a lead at the top score
determineLeadStatus_converts(score, intent) ==
  IF intent = "not_interested" THEN "not_interested"
  ELSE IF score # NaN /\ score >= 100 THEN "converted"
  ELSE IF score # NaN /\ score >= 70 THEN "hot"
  ELSE IF score # NaN /\ score >= 40 THEN "warm"
  ELSE "cold"

\* determineLeadStatus(score, intent); every comparison with NaN is false
determineLeadStatus(score, intent) ==
  IF intent = "not_interested" THEN "not_interested"
  ELSE IF score # NaN /\ score >= 70 THEN "hot"
  ELSE IF score # NaN /\ score >= 40 THEN "warm"
  ELSE "cold"

\* JSON.stringify of a number: NaN is written as null
JsonNumber(n) == IF n = NaN THEN Null ELSE n

(* ---------------------- parsing the completion text -------------------- *)

\* String.prototype.trim
RECURSIVE TrimLeft(_)
TrimLeft(s) == IF s # << >> /\ Head(s) \in SpaceChars THEN TrimLeft(Tail(s)) ELSE s

RECURSIVE TrimRight(_)
TrimRight(s) ==
  IF s # << >> /\ s[Len(s)] \in SpaceChars THEN TrimRight(SubSeq(s, 1, Len(s) - 1)) ELSE s

trim(s) == TrimRight(TrimLeft(s))

\* the least position in 1..n that satisfies P, 0 when there is none
FirstPos(n, P(_)) ==
  IF \E i \in 1..n : P(i)
  THEN CHOOSE i \in 1..n : P(i) /\ \A j \in 1..(i - 1) : ~P(j)
  ELSE 0

\* the first position from i on that holds no character of class, Len(s)+1 at the end
RECURSIVE SkipClass(_, _, _)
SkipClass(s, i, class) ==
  IF i <= Len(s) /\ s[i] \in class THEN SkipClass(s, i + 1, class) ELSE i

\* the regular expression classes \w and [0-9.]
WordClass == Range(UpperChars) \cup Range(LowerChars) \cup DigitChars \cup {"_"}
NumberChars == DigitChars \cup {"."}

L_intent == <<"i","n","t","e","n","t",":">>
L_confidence == <<"c","o","n","f","i","d","e","n","c","e",":">>
L_response == <<"r","e","s","p","o","n","s","e",":">>
L_next_action == <<"n","e","x","t"," ","a","c","t","i","o","n",":">>

\* /label\s*([class]+)/i : the first capture, << >> standing for no match
\* (the capture itself is never empty)
LabelCapture(s, label, class) ==
  LET low == toLowerCase(s)
      Ok(p) == /\ OccursAt(low, label, p)
               /\ LET q == SkipClass(s, p + Len(label), SpaceChars)
                  IN q <= Len(s) /\ s[q] \in class
      p == FirstPos(Len(s), Ok)
  IN IF p = 0 THEN << >>
     ELSE LET q == SkipClass(s, p + Len(label), SpaceChars)
          IN SubSeq(s, q, SkipClass(s, q, class) - 1)

\* aiResponse.match(/Intent:\s*(\w+)/i)
intentMatch(aiResponse) == LabelCapture(aiResponse, L_intent, WordClass)

\* aiResponse.match(/Confidence:\s*([0-9.]+)/i)
confidenceMatch(aiResponse) == LabelCapture(aiResponse, L_confidence, NumberChars)

DigitValue(c) == CHOOSE d \in 0..9 : ToString(d) = c

RECURSIVE DigitsValue(_)
DigitsValue(ds) ==
  IF ds = << >> THEN 0 ELSE 10 * DigitsValue(SubSeq(ds, 1, Len(ds) - 1)) + DigitValue(ds[Len(ds)])

\* parseFloat of a text over [0-9.], in hundredths (digits after the second
\* decimal are dropped); NaN when no digit precedes or follows the first point
parseFloat(t) ==
  LET e1 == SkipClass(t, 1, DigitChars)
      int == SubSeq(t, 1, e1 - 1)
      hasPoint == e1 <= Len(t) /\ t[e1] = "."
      e2 == IF hasPoint THEN SkipClass(t, e1 + 1, DigitChars) ELSE e1
      frac == IF hasPoint THEN SubSeq(t, e1 + 1, e2 - 1) ELSE << >>
      frac2 == SubSeq(frac \o <<"0", "0">>, 1, 2)
  IN IF int = << >> /\ frac = << >> THEN NaN
     ELSE 100 * DigitsValue(int) + DigitsValue(frac2)

\* aiResponse.match(/Response:\s*(.+?)(?=Next Action:|$)/is): [found, text]
replyMatch(aiResponse) ==
  LET low == toLowerCase(aiResponse)
      n == Len(aiResponse)
      Ok(p) == OccursAt(low, L_response, p) /\ p + Len(L_response) <= n
      p == FirstPos(n, Ok)
  IN IF p = 0 THEN [found |-> FALSE, text |-> << >>]
     ELSE LET q == SkipClass(aiResponse, p + Len(L_response), SpaceChars)
              \* \s* gives one blank back when only blanks follow the label
              start == IF q <= n THEN q ELSE n
              Stop(j) == j > start /\ (j = n + 1 \/ OccursAt(low, L_next_action, j))
              stop == FirstPos(n + 1, Stop)
          IN [found |-> TRUE, text |-> SubSeq(aiResponse, start, stop - 1)]

\* aiResponse.match(/Next Action:\s*(.+?)$/is): [found, text]
actionMatch(aiResponse) ==
  LET low == toLowerCase(aiResponse)
      n == Len(aiResponse)
      Ok(p) == OccursAt(low, L_next_action, p) /\ p + Len(L_next_action) <= n
      p == FirstPos(n, Ok)
  IN IF p = 0 THEN [found |-> FALSE, text |-> << >>]
     ELSE LET q == SkipClass(aiResponse, p + Len(L_next_action), SpaceChars)
              start == IF q <= n THEN q ELSE n
          IN [found |-> TRUE, text |-> SubSeq(aiResponse, start, n)]

\* String.prototype.split('\n')
RECURSIVE SplitLines(_)
SplitLines(s) ==
  LET IsNl(i) == s[i] = "\n"
      p == FirstPos(Len(s), IsNl)
  IN IF p = 0 THEN <<s>>
     ELSE <<SubSeq(s, 1, p - 1)>> \o SplitLines(SubSeq(s, p + 1, Len(s)))

\* String.prototype.split(/\r?\n/): a \r right before a separating \n goes with it
SplitCrLf(s) ==
  LET ls == SplitLines(s)
      Strip(l) == IF l # << >> /\ l[Len(l)] = "\r" THEN SubSeq(l, 1, Len(l) - 1) ELSE l
  IN [i \in 1..Len(ls) |-> IF i < Len(ls) THEN Strip(ls[i]) ELSE ls[i]]

\* Array.prototype.join(' ')
RECURSIVE JoinSpace(_)
JoinSpace(ls) ==
  IF ls = << >> THEN << >>
  ELSE IF Len(ls) = 1 THEN ls[1]
  ELSE ls[1] \o <<" ">> \o JoinSpace(Tail(ls))

\* line.match(/^(Intent|Confidence|Next Action):/i)
IsLabelLine(line) ==
  LET low == toLowerCase(line)
  IN OccursAt(low, L_intent, 1) \/ OccursAt(low, L_confidence, 1)
     \/ OccursAt(low, L_next_action, 1)

\* the reply when the Response label is absent: the unlabelled lines, joined
UnlabelledLines(aiResponse) ==
  LET Keep(line) == ~IsLabelLine(line)
  IN trim(JoinSpace(SelectSeq(SplitLines(aiResponse), Keep)))

K_suggested_for_rep == <<"s","u","g","g","e","s","t","e","d"," ","n","e","x","t"," ","a","c","t","i","o","n"," ","f","o","r"," ","s","a","l","e","s"," ","r","e","p">>
K_suggested_next_action == <<"s","u","g","g","e","s","t","e","d"," ","n","e","x","t"," ","a","c","t","i","o","n">>
K_next_action == <<"n","e","x","t"," ","a","c","t","i","o","n">>
K_suggested == <<"s","u","g","g","e","s","t","e","d">>
LineTerminators == {"\n", "\r"}

\* reply.search(/<phrase>[:\s].*$/i): . stops at a line terminator and $ is the end of
\* the text, so a phrase matches only when no line break follows it; 0 for -1
SearchPhrase(reply, phrase) ==
  LET low == toLowerCase(reply)
      n == Len(reply)
      Ok(p) == /\ OccursAt(low, phrase, p)
               /\ p + Len(phrase) <= n
               /\ reply[p + Len(phrase)] \in SpaceChars \cup {":"}
               /\ \A j \in (p + Len(phrase) + 1)..n : reply[j] \notin LineTerminators
  IN FirstPos(n, Ok)

\* reply.search(/\d+\s*[<marks>]\s*Suggested.*$/im): 0 for -1
SearchNumbered(reply, marks) ==
  LET low == toLowerCase(reply)
      n == Len(reply)
      Ok(p) == /\ reply[p] \in DigitChars
               /\ LET e == SkipClass(reply, p, DigitChars)
                      q == SkipClass(reply, e, SpaceChars)
                  IN /\ q <= n
                     /\ reply[q] \in marks
                     /\ OccursAt(low, K_suggested, SkipClass(reply, q + 1, SpaceChars))
  IN FirstPos(n, Ok)

\* the five cleanupPatterns, searched in the reply
cleanupPatterns(reply) ==
  <<SearchPhrase(reply, K_suggested_for_rep),
    SearchPhrase(reply, K_suggested_next_action),
    SearchPhrase(reply, K_next_action),
    SearchNumbered(reply, {".", ")"}),
    SearchNumbered(reply, {":", "-"})>>

\* the earliest match among the patterns, 0 when none matches
earliestIndex(reply) ==
  LET found == {p \in Range(cleanupPatterns(reply)) : p # 0}
  IN IF found = {} THEN 0 ELSE CHOOSE p \in found : \A r \in found : p <= r

\* reply.replace(/[\s\.,:;\-]+$/, '')
StripTrailing(s) == 
  LET class == SpaceChars \cup {".", ",", ":", ";", "-"}
      Ends == {i \in 1..Len(s) : s[i] \notin class}
  IN IF Ends = {} THEN << >>
     ELSE SubSeq(s, 1, CHOOSE i \in Ends : \A j \in Ends : j <= i)

\* the reply of generateAIResponse before the template fallback
CleanReply(aiResponse) ==
  LET m == replyMatch(aiResponse)
      reply0 == IF m.found THEN trim(m.text) ELSE UnlabelledLines(aiResponse)
      cut == earliestIndex(reply0)
      reply1 == IF cut # 0 THEN trim(SubSeq(reply0, 1, cut - 1)) ELSE reply0
      Keep(line) == LET t == toLowerCase(trim(line))
                    IN /\ t # << >>
                       /\ ~includes(t, K_suggested)
                       /\ ~includes(t, K_next_action)
      reply2 == trim(JoinSpace(SelectSeq(SplitCrLf(reply1), Keep)))
  IN trim(StripTrailing(reply2))

(* --------------------------- completion service ------------------------ *)

\* answers of the completion endpoint used in the model
C_full == "Response: Plans start at 999 a month.\nIntent: pricing_inquiry\nConfidence: 0.9\nNext Action: offer_demo"
C_constructor == "Happy to help!\nIntent: constructor"
C_spam == "Response: Sure.\nIntent: spam\nConfidence: 0.5"
C_plain == "Tell me more about your team."

Contents == {C_full, C_constructor, C_spam, C_plain}

\* further contents, read by the text functions alone
C_percent == "Response: Happy to show you.\nIntent: demo_request\nConfidence: 95\nNext Action: schedule_demo"
C_marker == "Response: We can set that up.\nSuggested next action: call the lead"
C_numbered == "Thanks for asking. 4. Suggested next action: send the deck"
C_split == "Response: Think about your next\naction: a short call.\nSuggested next action: book a call"
C_labels == "Intent: follow_up\nConfidence: 0.8"
C_action == "Next Action: send the deck"

TextContents ==
  Contents \cup {C_percent, C_marker, C_numbered, C_split, C_labels, C_action}

\* what generateAIResponse reads off a content: the lower-cased Intent label ("" when
\* the label is absent), the confidence, the cleaned reply, the Next Action label
ParseContent(content) ==
  LET aiResponse == Chars(content)
      im == intentMatch(aiResponse)
      cm == confidenceMatch(aiResponse)
      am == actionMatch(aiResponse)
  IN [intentMatch |-> IF im # << >> THEN Str(toLowerCase(im)) ELSE "",
      confidence |-> IF cm # << >> THEN parseFloat(cm) ELSE 75,
      reply |-> Str(CleanReply(aiResponse)),
      actionMatch |-> [found |-> am.found, text |-> Str(trim(am.text))]]

\* ParseContent of every content of the model
ParsedContents == [c \in TextContents |-> ParseContent(c)]

\* what fetch and response.json() can give: fetch rejects; a non-2xx status; a body
\* that is not JSON; no choices[0].message; no (or empty) message content; a content
Completions ==
  {[fetch |-> "rejected", ok |-> FALSE, json |-> FALSE, message |-> FALSE, content |-> ""],
   [fetch |-> "resolved", ok |-> FALSE, json |-> TRUE, message |-> FALSE, content |-> ""],
   [fetch |-> "resolved", ok |-> TRUE, json |-> FALSE, message |-> FALSE, content |-> ""],
   [fetch |-> "resolved", ok |-> TRUE, json |-> TRUE, message |-> FALSE, content |-> ""],
   [fetch |-> "resolved", ok |-> TRUE, json |-> TRUE, message |-> TRUE, content |-> ""]}
  \cup {[fetch |-> "resolved", ok |-> TRUE, json |-> TRUE, message |-> TRUE, content |-> c] :
          c \in Contents}

\* an exception: an Error object with its message, or a thrown plain object
Error(msg) == [threw |-> TRUE, isError |-> TRUE, message |-> msg]
PlainObject == [threw |-> TRUE, isError |-> FALSE, message |-> "[object Object]"]

\* a result that takes general_inquiry when the content has no Intent label
ParsedResponse_general(parsed, message, lead) ==
  LET intent == IF parsed.intentMatch # "" THEN parsed.intentMatch ELSE "general_inquiry"
  IN [threw |-> FALSE,
      intent |-> [intent |-> intent, confidence |-> parsed.confidence,
                  keywords |-> << >>],
      reply |-> IF parsed.reply # "" THEN [text |-> parsed.reply]
                ELSE generateRuleBasedResponse(intent, lead),
      nextAction |-> IF parsed.actionMatch.found THEN parsed.actionMatch.text
                     ELSE determineNextAction(intent)]

\* the end of generateAIResponse: the result built from the parsed content, with
\* the fallbacks for what the content lacks
ParsedResponse(parsed, message, lead) ==
  LET intent == IF parsed.intentMatch # "" THEN parsed.intentMatch
                ELSE Classified[message].intent
  IN [threw |-> FALSE,
      intent |-> [intent |-> intent, confidence |-> parsed.confidence,
                  keywords |-> << >>],
      reply |-> IF parsed.reply # "" THEN [text |-> parsed.reply]
                ELSE generateRuleBasedResponse(intent, lead),
      nextAction |-> IF parsed.actionMatch.found THEN parsed.actionMatch.text
                     ELSE determineNextAction(intent)]

\* generateAIResponse(message, history, lead, apiKey) on the answer of the endpoint
generateAIResponse(message, lead, completion) ==
  IF completion.fetch = "rejected" THEN Error("fetch failed")
  ELSE IF ~completion.ok THEN Error("OpenAI API error: upstream status and message")
  ELSE IF ~completion.json THEN Error("Failed to parse OpenAI API response as JSON")
  ELSE IF ~completion.message
    THEN Error("Invalid response from OpenAI API: missing choices or message")
  ELSE IF completion.content = ""
    THEN Error("Invalid response from OpenAI API: missing message content")
  ELSE ParsedResponse(ParsedContents[completion.content], message, lead)

\* the rule-based responder: detectIntentRuleBased, generateRuleBasedResponse,
\* determineNextAction
RuleBased(message, lead) ==
  LET r == Classified[message]
  IN [threw |-> FALSE, intent |-> r,
      reply |-> generateRuleBasedResponse(r.intent, lead),
      nextAction |-> determineNextAction(r.intent)]

\* a responder selection that answers a failed completion call with the general
\* template instead of the rule-based result
Responder_general(result, message, lead) ==
  IF result.threw
  THEN [threw |-> FALSE,
        intent |-> [intent |-> "general_inquiry", confidence |-> 60, keywords |-> << >>],
        reply |-> generateRuleBasedResponse("general_inquiry", lead),
        nextAction |-> determineNextAction("general_inquiry")]
  ELSE result

\* the responder selection of the handler once the completion call has returned:
\* its result, or the rule-based one when it threw
Responder(result, message, lead) ==
  IF result.threw THEN RuleBased(message, lead) ELSE result

(* ------------------------------- requests ------------------------------ *)

NoInfo == [name |-> "", email |-> ""]

\* the request bodies of the model; json |-> FALSE is a body req.json() rejects,
\* an empty lead_id or message stands for an absent or empty field
Requests == <<
  [json |-> TRUE, lead_id |-> "L1", message |-> M_pricing,
   lead_info |-> [name |-> "Asha", email |-> "asha@x.io"]],
  [json |-> TRUE, lead_id |-> "L1", message |-> M_demo, lead_info |-> NoInfo],
  [json |-> TRUE, lead_id |-> "L1", message |-> M_not_interested, lead_info |-> NoInfo],
  [json |-> TRUE, lead_id |-> "L2", message |-> M_hello,
   lead_info |-> [name |-> "", email |-> "asha@x.io"]],
  [json |-> TRUE, lead_id |-> "", message |-> M_pricing,
   lead_info |-> [name |-> "Asha", email |-> "asha@x.io"]],
  [json |-> TRUE, lead_id |-> "L1", message |-> "", lead_info |-> NoInfo],
  [json |-> FALSE, lead_id |-> "", message |-> "", lead_info |-> NoInfo],
  \* Examples 1-5 of the API guide: the first carries the profile of the new lead
  [json |-> TRUE, lead_id |-> "L4", message |-> M_guide1,
   lead_info |-> [name |-> "Sarah Johnson", email |-> "sarah.johnson@techcorp.com"]],
  [json |-> TRUE, lead_id |-> "L4", message |-> M_guide2, lead_info |-> NoInfo],
  [json |-> TRUE, lead_id |-> "L4", message |-> M_guide3, lead_info |-> NoInfo],
  [json |-> TRUE, lead_id |-> "L4", message |-> M_guide4, lead_info |-> NoInfo],
  [json |-> TRUE, lead_id |-> "L4", message |-> M_guide5, lead_info |-> NoInfo] >>

\* the requests a caller sends one at a time, and the requests of the guide
SerialRequests == 1..7
GuideRequests == 8..12

(* -------------------------------- bounds ------------------------------- *)

\* exchanges (requests in flight or finished) in one behaviour
NumExchanges == 2

\* store calls that fail in one behaviour
MaxFaults == 1

\* .limit(5) of the history query
HistoryLimit == 5

\* message.substring(0, 100) of the activity details
SnippetLength == 100

Exchanges == 1..NumExchanges

(* --------------------------------- state ------------------------------- *)

VARIABLES
  openaiApiKey,     \* whether OPENAI_API_KEY is set in the environment
  leads,            \* table leads: id -> row
  conversations,    \* table conversations, in insertion order
  lead_activities,  \* table lead_activities, in insertion order
  pc,               \* where each exchange's handler stands
  request,          \* the request of each exchange: an index of Requests, 0 before it arrives
  lead,             \* the handler's lead: the row it selected or inserted
  conversationHistory, \* the handler's conversationHistory
  responder,        \* intentResult, aiReply and nextAction of the handler
  scored,           \* newScore and newStatus of the handler
  response,         \* the Response the handler returned
  faults,           \* store calls that have failed so far
  storeCalls,       \* per exchange: calls made to the store
  completionCalls,  \* per exchange: calls made to the completion service
  completionError,  \* per exchange: the message of the error its completion call threw
  failedWrites,     \* per exchange: the writes of step 6 whose call returned an error
  scorer,           \* a call of the scorer on its own: its arguments and what it returned
  parser            \* a call of the classifier and of the responder on their own

vars == <<openaiApiKey, leads, conversations, lead_activities, pc, request, lead,
          conversationHistory, responder, scored, response, faults, storeCalls,
          completionCalls, completionError, failedWrites, scorer, parser>>

None == [none |-> TRUE]

\* a profile test that accepts a profile without an e-mail address
hasProfile_any(lead_info) == TRUE

\* lead_info && lead_info.email
hasProfile(lead_info) == lead_info.email # ""

\* a new row that already counts one message
NewLeadRow_counted(e, id, info) ==
  [id |-> id,
   name |-> IF info.name # "" THEN info.name ELSE "Unknown",
   email |-> info.email,
   lead_score |-> 0, lead_status |-> "cold", total_messages |-> 1, exchange |-> e]

\* the row an INSERT into leads creates: the table's column defaults; exchange
\* records which exchange inserted it
NewLeadRow(e, id, info) ==
  [id |-> id,
   name |-> IF info.name # "" THEN info.name ELSE "Unknown",
   email |-> info.email,
   lead_score |-> 0, lead_status |-> "cold", total_messages |-> 0, exchange |-> e]

\* the row of the user's message
UserTurn(e, id, message, intentResult) ==
  [lead_id |-> id, message |-> [text |-> message], sender |-> "user",
   intent |-> intentResult.intent, confidence |-> intentResult.confidence, exchange |-> e]

\* the row of the agent's reply
AgentTurn(e, id, aiReply, nextAction) ==
  [lead_id |-> id, message |-> aiReply, sender |-> "agent",
   next_action |-> nextAction, exchange |-> e]

\* the row of the activity log
Activity(e, id, message, intentResult) ==
  [lead_id |-> id, activity_type |-> intentResult.intent,
   details |-> [message |-> Str(SubSeq(Chars(message), 1,
                                       Min(SnippetLength, Len(Chars(message))))),
                confidence |-> intentResult.confidence],
   exchange |-> e]

\* Array.prototype.reverse
Reverse(s) == [i \in 1..Len(s) |-> s[Len(s) + 1 - i]]

\* a history query without the limit
recentMessages_all(id) ==
  LET Mine(t) == t.lead_id = id
      rows == Reverse(SelectSeq(conversations, Mine))
  IN [i \in 1..Len(rows) |-> [message |-> rows[i].message, sender |-> rows[i].sender]]

\* select message, sender from conversations where lead_id = id
\* order by created_at desc limit 5
recentMessages(id) ==
  LET Mine(t) == t.lead_id = id
      desc == Reverse(SelectSeq(conversations, Mine))
      rows == SubSeq(desc, 1, Min(HistoryLimit, Len(desc)))
  IN [i \in 1..Len(rows) |-> [message |-> rows[i].message, sender |-> rows[i].sender]]

\* a store reached by four exchanges of lead L1 on the rule-based path
\* (demo 28, features 47, hello 67, not interested 55) and, before the last of
\* them, one exchange of lead L3 (pricing 18); exchange 0 wrote its rows
SeededLeads ==
  [L1 |-> [id |-> "L1", name |-> "Asha", email |-> "asha@x.io",
           lead_score |-> 55, lead_status |-> "not_interested", total_messages |-> 4,
           exchange |-> 0],
   L3 |-> [id |-> "L3", name |-> "Ravi", email |-> "ravi@x.io",
           lead_score |-> 18, lead_status |-> "cold", total_messages |-> 1,
           exchange |-> 0]]

SeededMessages == <<M_demo, M_feature, M_hello, M_not_interested>>

SeededConversations ==
  LET Pair(id, m) ==
        LET r == RuleBased(m, SeededLeads[id])
        IN <<UserTurn(0, id, m, r.intent), AgentTurn(0, id, r.reply, r.nextAction)>>
  IN Pair("L1", SeededMessages[1]) \o Pair("L1", SeededMessages[2])
       \o Pair("L1", SeededMessages[3]) \o Pair("L3", M_pricing)
       \o Pair("L1", SeededMessages[4])

SeededActivities ==
  LET Act(id, m) == Activity(0, id, m, RuleBased(m, SeededLeads[id]).intent)
  IN <<Act("L1", SeededMessages[1]), Act("L1", SeededMessages[2]),
       Act("L1", SeededMessages[3]), Act("L3", M_pricing), Act("L1", SeededMessages[4])>>

\* the store before the first exchange: empty, or seeded
Stores ==
  \/ /\ leads = << >>
     /\ conversations = << >>
     /\ lead_activities = << >>
  \/ /\ leads = SeededLeads
     /\ conversations = SeededConversations
     /\ lead_activities = SeededActivities

\* no request has arrived; f store calls have failed already
Handlers(f) ==
  /\ pc = [e \in Exchanges |-> "idle"]
  /\ request = [e \in Exchanges |-> 0]
  /\ lead = [e \in Exchanges |-> None]
  /\ conversationHistory = [e \in Exchanges |-> << >>]
  /\ responder = [e \in Exchanges |-> None]
  /\ scored = [e \in Exchanges |-> None]
  /\ response = [e \in Exchanges |-> [status |-> 0]]
  /\ faults = f
  /\ storeCalls = [e \in Exchanges |-> 0]
  /\ completionCalls = [e \in Exchanges |-> 0]
  /\ completionError = [e \in Exchanges |-> ""]
  /\ failedWrites = [e \in Exchanges |-> {}]

Init ==
  /\ openaiApiKey \in BOOLEAN
  /\ Stores
  /\ Handlers(0)
  /\ scorer = None
  /\ parser = None

(* -------------------------------- handler ------------------------------ *)

Req(e) == Requests[request[e]]

\* the catch block of the handler: the body of the 500 response
CatchResponse(error) ==
  LET errorMessage == IF error.isError THEN error.message ELSE "[object Object]"
  IN [status |-> 500,
      error |-> IF errorMessage # "" THEN errorMessage ELSE "Internal server error"]

\* the error object a failed store call returns (no Error instance)
StoreError(msg) == [threw |-> TRUE, isError |-> FALSE, message |-> msg]

\* a store call answers, or fails while the fault budget lasts
StoreCall(e, ok) ==
  /\ ok \/ faults < MaxFaults
  /\ faults' = IF ok THEN faults ELSE faults + 1
  /\ storeCalls' = [storeCalls EXCEPT ![e] = @ + 1]

\* a validation that tests lead_id only
Validate_leadIdOnly(r) ==
  IF ~Requests[r].json
  THEN [pc |-> "done", response |-> CatchResponse(Error("Unexpected end of JSON input"))]
  ELSE IF Requests[r].lead_id = ""
  THEN [pc |-> "done",
        response |-> [status |-> 400, error |-> "lead_id and message are required"]]
  ELSE [pc |-> "select_lead", response |-> [status |-> 0]]

\* await req.json() and the validation of lead_id and message: where the handler
\* goes next, and the response it returns at once
Validate(r) ==
  IF ~Requests[r].json
  THEN [pc |-> "done", response |-> CatchResponse(Error("Unexpected end of JSON input"))]
  ELSE IF Requests[r].lead_id = "" \/ Requests[r].message = ""
  THEN [pc |-> "done",
        response |-> [status |-> 400, error |-> "lead_id and message are required"]]
  ELSE [pc |-> "select_lead", response |-> [status |-> 0]]

\* f with the locals of the exchanges in gone dropped
Forget(f, gone, v) == [x \in Exchanges |-> IF x \in gone THEN v ELSE f[x]]

\* exchange e arrives with request r; the handlers in gone have returned and their
\* locals are dropped
Arrive(e, r, gone) ==
  /\ request' = [Forget(request, gone, 0) EXCEPT ![e] = r]
  /\ pc' = [Forget(pc, gone, "closed") EXCEPT ![e] = Validate(r).pc]
  /\ response' = [Forget(response, gone, [status |-> 0]) EXCEPT ![e] = Validate(r).response]
  /\ lead' = Forget(lead, gone, None)
  /\ conversationHistory' = Forget(conversationHistory, gone, << >>)
  /\ responder' = Forget(responder, gone, None)
  /\ scored' = Forget(scored, gone, None)
  /\ storeCalls' = Forget(storeCalls, gone, 0)
  /\ completionCalls' = Forget(completionCalls, gone, 0)
  /\ completionError' = Forget(completionError, gone, "")
  /\ failedWrites' = Forget(failedWrites, gone, {})
  /\ UNCHANGED <<scorer, parser, openaiApiKey, leads, conversations, lead_activities, faults>>

\* a request arrives once the exchange before it has returned
Receive(e) ==
  /\ pc[e] = "idle"
  /\ IF e = 1 THEN TRUE ELSE pc[e - 1] = "done"
  /\ \E r \in SerialRequests : Arrive(e, r, {e - 1} \cap Exchanges)

\* select * from leads where id = lead_id, and the branch on its result
SelectLead(e) ==
  /\ pc[e] = "select_lead"
  /\ \E ok \in BOOLEAN :
       /\ StoreCall(e, ok)
       /\ LET found == ok /\ Req(e).lead_id \in DOMAIN leads
          IN IF found
             THEN /\ lead' = [lead EXCEPT ![e] = leads[Req(e).lead_id]]
                  /\ pc' = [pc EXCEPT ![e] = "load_history"]
                  /\ UNCHANGED response
             ELSE IF hasProfile(Req(e).lead_info)
             THEN /\ pc' = [pc EXCEPT ![e] = "insert_lead"]
                  /\ UNCHANGED <<lead, response>>
             ELSE /\ response' = [response EXCEPT ![e] =
                       [status |-> 404,
                        error |-> "Lead not found and insufficient lead_info provided"]]
                  /\ pc' = [pc EXCEPT ![e] = "done"]
                  /\ UNCHANGED lead
  /\ UNCHANGED <<scorer, parser, openaiApiKey, leads, conversations, lead_activities,
                 request, conversationHistory, responder, scored,
                 completionCalls, completionError, failedWrites>>

\* insert into leads ... select().single(); leadError is thrown
InsertLead(e) ==
  /\ pc[e] = "insert_lead"
  /\ \E ok \in BOOLEAN :
       /\ StoreCall(e, ok)
       /\ LET id == Req(e).lead_id
              row == NewLeadRow(e, id, Req(e).lead_info)
              \* id is the primary key and email is UNIQUE
              conflict == \/ id \in DOMAIN leads
                          \/ \E l \in DOMAIN leads : leads[l].email = row.email
          IN IF ok /\ ~conflict
             THEN /\ leads' = leads @@ (id :> row)
                  /\ lead' = [lead EXCEPT ![e] = row]
                  /\ pc' = [pc EXCEPT ![e] = "load_history"]
                  /\ UNCHANGED response
             ELSE /\ response' = [response EXCEPT ![e] =
                       CatchResponse(StoreError("duplicate key or store failure"))]
                  /\ pc' = [pc EXCEPT ![e] = "done"]
                  /\ UNCHANGED <<leads, lead>>
  /\ UNCHANGED <<scorer, parser, openaiApiKey, conversations, lead_activities,
                 request, conversationHistory, responder, scored,
                 completionCalls, completionError, failedWrites>>

\* the history query; without an API key the rule-based responder runs at once
LoadHistory(e) ==
  /\ pc[e] = "load_history"
  /\ \E ok \in BOOLEAN :
       /\ StoreCall(e, ok)
       /\ conversationHistory' = [conversationHistory EXCEPT ![e] =
            IF ok THEN Reverse(recentMessages(Req(e).lead_id)) ELSE << >>]
  /\ IF openaiApiKey
     THEN /\ pc' = [pc EXCEPT ![e] = "completion"]
          /\ UNCHANGED responder
     ELSE /\ responder' = [responder EXCEPT ![e] = RuleBased(Req(e).message, lead[e])]
          /\ pc' = [pc EXCEPT ![e] = "user_turn"]
  /\ UNCHANGED <<scorer, parser, openaiApiKey, leads, conversations, lead_activities,
                 request, lead, scored, response,
                 completionCalls, completionError, failedWrites>>

\* a handler that calls the endpoint again after a call that failed
CallCompletion_retry(e) ==
  /\ pc[e] = "completion"
  /\ \E c \in Completions :
       \E result \in {generateAIResponse(Req(e).message, lead[e], c)} :
         /\ responder' = [responder EXCEPT ![e] = IF result.threw THEN @ ELSE result]
         /\ completionError' = [completionError EXCEPT
              ![e] = IF result.threw THEN result.message ELSE ""]
         /\ pc' = [pc EXCEPT ![e] = IF result.threw THEN "completion" ELSE "user_turn"]
  /\ completionCalls' = [completionCalls EXCEPT ![e] = @ + 1]
  /\ UNCHANGED <<scorer, parser, openaiApiKey, leads, conversations, lead_activities,
                 request, lead, conversationHistory, scored, response, faults,
                 storeCalls, failedWrites>>

\* generateAIResponse inside the handler's try, and its catch
CallCompletion(e) ==
  /\ pc[e] = "completion"
  /\ \E c \in Completions :
       \E result \in {generateAIResponse(Req(e).message, lead[e], c)} :
         /\ responder' = [responder EXCEPT ![e] = Responder(result, Req(e).message, lead[e])]
         /\ completionError' = [completionError EXCEPT
              ![e] = IF result.threw THEN result.message ELSE ""]
  /\ completionCalls' = [completionCalls EXCEPT ![e] = @ + 1]
  /\ pc' = [pc EXCEPT ![e] = "user_turn"]
  /\ UNCHANGED <<scorer, parser, openaiApiKey, leads, conversations, lead_activities,
                 request, lead, conversationHistory, scored, response, faults,
                 storeCalls, failedWrites>>

\* a write of step 6 whose returned error nothing reads
Write(e, ok, name) ==
  /\ StoreCall(e, ok)
  /\ failedWrites' = [failedWrites EXCEPT ![e] = IF ok THEN @ ELSE @ \cup {name}]

\* an insert that skips a message the lead's log already ends with
InsertUserTurn_once(e) ==
  /\ pc[e] = "user_turn"
  /\ \E ok \in BOOLEAN :
       /\ Write(e, ok, "user_turn")
       /\ LET Sent(t) == t.lead_id = Req(e).lead_id /\ t.sender = "user"
              sent == SelectSeq(conversations, Sent)
              repeated == Len(sent) > 0 /\ sent[Len(sent)].message = [text |-> Req(e).message]
          IN conversations' =
               IF ok /\ ~repeated
               THEN Append(conversations,
                      UserTurn(e, Req(e).lead_id, Req(e).message, responder[e].intent))
               ELSE conversations
  /\ pc' = [pc EXCEPT ![e] = "agent_turn"]
  /\ UNCHANGED <<scorer, parser, openaiApiKey, leads, lead_activities, request, lead,
                 conversationHistory, responder, scored, response,
                 completionCalls, completionError>>

\* insert the user's message into conversations
InsertUserTurn(e) ==
  /\ pc[e] = "user_turn"
  /\ \E ok \in BOOLEAN :
       /\ Write(e, ok, "user_turn")
       /\ conversations' =
            IF ok THEN Append(conversations,
                         UserTurn(e, Req(e).lead_id, Req(e).message, responder[e].intent))
            ELSE conversations
  /\ pc' = [pc EXCEPT ![e] = "agent_turn"]
  /\ UNCHANGED <<scorer, parser, openaiApiKey, leads, lead_activities, request, lead,
                 conversationHistory, responder, scored, response,
                 completionCalls, completionError>>

\* insert the agent's reply into conversations
InsertAgentTurn(e) ==
  /\ pc[e] = "agent_turn"
  /\ \E ok \in BOOLEAN :
       /\ Write(e, ok, "agent_turn")
       /\ conversations' =
            IF ok THEN Append(conversations,
                         AgentTurn(e, Req(e).lead_id, responder[e].reply,
                                   responder[e].nextAction))
            ELSE conversations
  /\ pc' = [pc EXCEPT ![e] = "update_lead"]
  /\ UNCHANGED <<scorer, parser, openaiApiKey, leads, lead_activities, request, lead,
                 conversationHistory, responder, scored, response,
                 completionCalls, completionError>>

\* an update that adds to the score the row holds when the update runs
UpdateLead_accumulates(e) ==
  /\ pc[e] = "update_lead"
  /\ LET id == Req(e).lead_id
         held == IF id \in DOMAIN leads THEN leads[id] ELSE lead[e]
         newScore == calculateLeadScore(held, Len(conversationHistory[e]) + 1,
                                        responder[e].intent.intent)
         newStatus == determineLeadStatus(newScore, responder[e].intent.intent)
     IN /\ scored' = [scored EXCEPT ![e] = [newScore |-> newScore, newStatus |-> newStatus]]
        /\ \E ok \in BOOLEAN :
             /\ Write(e, ok, "update_lead")
             /\ leads' =
                  IF ok /\ id \in DOMAIN leads
                  THEN [leads EXCEPT ![id] =
                          [@ EXCEPT !.lead_score = JsonNumber(newScore),
                                    !.lead_status = newStatus,
                                    !.total_messages = held.total_messages + 1]]
                  ELSE leads
  /\ pc' = [pc EXCEPT ![e] = "activity"]
  /\ UNCHANGED <<scorer, parser, openaiApiKey, conversations, lead_activities, request, lead,
                 conversationHistory, responder, response,
                 completionCalls, completionError>>

\* calculateLeadScore, determineLeadStatus and the update of the lead's row
UpdateLead(e) ==
  /\ pc[e] = "update_lead"
  /\ LET id == Req(e).lead_id
         newScore == calculateLeadScore(lead[e], Len(conversationHistory[e]) + 1,
                                        responder[e].intent.intent)
         newStatus == determineLeadStatus(newScore, responder[e].intent.intent)
     IN /\ scored' = [scored EXCEPT ![e] = [newScore |-> newScore, newStatus |-> newStatus]]
        /\ \E ok \in BOOLEAN :
             /\ Write(e, ok, "update_lead")
             /\ leads' =
                  IF ok /\ id \in DOMAIN leads
                  THEN [leads EXCEPT ![id] =
                          [@ EXCEPT !.lead_score = JsonNumber(newScore),
                                    !.lead_status = newStatus,
                                    !.total_messages = lead[e].total_messages + 1]]
                  ELSE leads
  /\ pc' = [pc EXCEPT ![e] = "activity"]
  /\ UNCHANGED <<scorer, parser, openaiApiKey, conversations, lead_activities, request, lead,
                 conversationHistory, responder, response,
                 completionCalls, completionError>>

\* insert into lead_activities, then the 200 response
InsertActivity(e) ==
  /\ pc[e] = "activity"
  /\ \E ok \in BOOLEAN :
       /\ Write(e, ok, "activity")
       /\ lead_activities' =
            IF ok THEN Append(lead_activities,
                         Activity(e, Req(e).lead_id, Req(e).message, responder[e].intent))
            ELSE lead_activities
  /\ response' = [response EXCEPT ![e] =
       [status |-> 200,
        reply |-> responder[e].reply,
        intent |-> responder[e].intent.intent,
        confidence |-> responder[e].intent.confidence,
        next_action |-> responder[e].nextAction,
        lead_score |-> JsonNumber(scored[e].newScore),
        lead_status |-> scored[e].newStatus]]
  /\ pc' = [pc EXCEPT ![e] = "done"]
  /\ UNCHANGED <<scorer, parser, openaiApiKey, leads, conversations, request, lead,
                 conversationHistory, responder, scored,
                 completionCalls, completionError>>

Next ==
  \E e \in Exchanges :
    \/ Receive(e)
    \/ SelectLead(e)
    \/ InsertLead(e)
    \/ LoadHistory(e)
    \/ CallCompletion(e)
    \/ InsertUserTurn(e)
    \/ InsertAgentTurn(e)
    \/ UpdateLead(e)
    \/ InsertActivity(e)

Spec == Init /\ [][Next]_vars

\* a step of the handler of exchange e that waits for the store alone: the store
\* answers every call, and the runtime resumes the handler when it has
HandlerStep(e) ==
  \/ SelectLead(e)
  \/ InsertLead(e)
  \/ LoadHistory(e)
  \/ InsertUserTurn(e)
  \/ InsertAgentTurn(e)
  \/ UpdateLead(e)
  \/ InsertActivity(e)

\* the handlers under a store that answers: the fetch of generateAIResponse has no
\* signal and no timer, so CallCompletion happens when the endpoint answers and
\* nothing makes it happen
LiveSpec == Init /\ [][Next]_vars /\ \A e \in Exchanges : WF_vars(HandlerStep(e))

(* ------------------------- concurrent exchanges ------------------------ *)

\* the requests of concurrent exchanges: messages of lead L1 with and without a
\* profile, and a new lead with L1's e-mail address
RaceRequests == {1, 3, 4}

\* a request arrives while earlier exchanges are still running
ReceiveConcurrent(e) ==
  /\ pc[e] = "idle"
  /\ IF e = 1 THEN TRUE ELSE pc[e - 1] # "idle"   \* exchanges are numbered as they arrive
  /\ \E r \in RaceRequests : Arrive(e, r, {})

\* no API key is set and the store answers every call
RaceInit ==
  /\ openaiApiKey = FALSE
  /\ Stores
  /\ Handlers(MaxFaults)
  /\ scorer = None
  /\ parser = None

RaceNext ==
  \E e \in Exchanges :
    \/ ReceiveConcurrent(e)
    \/ SelectLead(e)
    \/ InsertLead(e)
    \/ LoadHistory(e)
    \/ InsertUserTurn(e)
    \/ InsertAgentTurn(e)
    \/ UpdateLead(e)
    \/ InsertActivity(e)

RaceSpec == RaceInit /\ [][RaceNext]_vars

(* ------------------------------- the guide ----------------------------- *)

\* the messages of the guide that lead L4 has on its log
GuideSent ==
  LET Sent(t) == t.lead_id = "L4" /\ t.sender = "user"
  IN Len(SelectSeq(conversations, Sent))

\* the caller of the guide sends its next message once the exchange before it has
\* returned; the handlers that have returned drop their locals
GuideReceive(e) ==
  /\ GuideSent < Len(GuideMessages)
  /\ e = (GuideSent % NumExchanges) + 1
  /\ \A f \in Exchanges : pc[f] \in {"idle", "done", "closed"}
  /\ \E r \in {n \in GuideRequests : Requests[n].message = GuideMessages[GuideSent + 1]} :
       Arrive(e, r, {f \in Exchanges : pc[f] = "done"} \cup {e})

\* an empty store that answers every call, with or without an API key
GuideInit ==
  /\ openaiApiKey \in BOOLEAN
  /\ leads = << >>
  /\ conversations = << >>
  /\ lead_activities = << >>
  /\ Handlers(MaxFaults)
  /\ scorer = None
  /\ parser = None

GuideNext ==
  \E e \in Exchanges :
    \/ GuideReceive(e)
    \/ SelectLead(e)
    \/ InsertLead(e)
    \/ LoadHistory(e)
    \/ CallCompletion(e)
    \/ InsertUserTurn(e)
    \/ InsertAgentTurn(e)
    \/ UpdateLead(e)
    \/ InsertActivity(e)

GuideSpec == GuideInit /\ [][GuideNext]_vars

(* ------------------------------ the scorer ----------------------------- *)

\* the largest messageCount given to the scorer on its own
MaxMessageCount == 8

\* the intents given to the scorer on its own: the keys of intentScores, an intent
\* that is no key, and a key of Object.prototype
ScorerIntents == KnownIntents \cup {"spam", "constructor"}

\* a lead row holds a score the scorer wrote, or null
ScorerLeads == {[lead_score |-> p] : p \in (0..100) \cup {Null}}

ScoreInit ==
  /\ openaiApiKey = FALSE
  /\ leads = << >>
  /\ conversations = << >>
  /\ lead_activities = << >>
  /\ Handlers(0)
  /\ parser = None
  /\ \E l \in ScorerLeads, n \in 0..MaxMessageCount, i \in ScorerIntents :
       scorer = [lead |-> l, messageCount |-> n, intent |-> i,
                 returned |-> FALSE, newScore |-> 0, newStatus |-> ""]

\* newScore = calculateLeadScore(...); newStatus = determineLeadStatus(newScore, intent)
Score ==
  /\ ~scorer.returned
  /\ LET newScore == calculateLeadScore(scorer.lead, scorer.messageCount, scorer.intent)
     IN scorer' = [scorer EXCEPT !.returned = TRUE,
                                 !.newScore = newScore,
                                 !.newStatus = determineLeadStatus(newScore, scorer.intent)]
  /\ UNCHANGED <<parser, openaiApiKey, leads, conversations, lead_activities, pc, request,
                 lead, conversationHistory, responder, scored, response, faults,
                 storeCalls, completionCalls, completionError, failedWrites>>

ScoreNext == Score

ScoreSpec == ScoreInit /\ [][ScoreNext]_vars

(* --------------------------- the text functions ------------------------ *)

\* what the endpoint can answer when the text functions run on their own: every
\* answer of Completions, and a 200 answer with each further content
TextCompletions ==
  Completions
  \cup {[fetch |-> "resolved", ok |-> TRUE, json |-> TRUE, message |-> TRUE, content |-> c] :
          c \in TextContents}

\* the lead the text functions run for
TextLead == SeededLeads["L1"]

TextInit ==
  /\ openaiApiKey \in BOOLEAN
  /\ leads = << >>
  /\ conversations = << >>
  /\ lead_activities = << >>
  /\ Handlers(0)
  /\ scorer = None
  /\ \E m \in Messages, c \in TextCompletions :
       parser = [message |-> m, completion |-> c,
                 classified |-> FALSE, intentResult |-> None,
                 responded |-> FALSE, result |-> None]

\* detectIntentRuleBased(message)
Classify ==
  /\ ~parser.classified
  /\ parser' = [parser EXCEPT !.classified = TRUE,
                              !.intentResult = detectIntentRuleBased(parser.message)]
  /\ UNCHANGED <<scorer, openaiApiKey, leads, conversations, lead_activities, pc, request,
                 lead, conversationHistory, responder, scored, response, faults,
                 storeCalls, completionCalls, completionError, failedWrites>>

\* the responder selection of the handler: generateAIResponse when the key is set,
\* with the rule-based result when it throws; the rule-based result without a key
Respond ==
  /\ ~parser.responded
  /\ \E result \in {IF openaiApiKey
                    THEN generateAIResponse(parser.message, TextLead, parser.completion)
                    ELSE RuleBased(parser.message, TextLead)} :
       parser' = [parser EXCEPT !.responded = TRUE,
                                !.result = Responder(result, parser.message, TextLead)]
  /\ UNCHANGED <<scorer, openaiApiKey, leads, conversations, lead_activities, pc, request,
                 lead, conversationHistory, responder, scored, response, faults,
                 storeCalls, completionCalls, completionError, failedWrites>>

TextNext == Classify \/ Respond

TextSpec == TextInit /\ [][TextNext]_vars

(* ================================ properties =========================== *)

\* the exchange e has just run its update of the lead's row, and the store took it
Updated(e) ==
  /\ pc[e] = "update_lead"
  /\ pc'[e] = "activity"
  /\ "update_lead" \notin failedWrites'[e]

\* C1: after any sequence and any interleaving of chat exchanges for a lead, every
\* lead score the handler wrote or returned is an integer between 0 and 100
C1_ScoreInRange ==
  /\ \A id \in DOMAIN leads : leads[id].lead_score \in 0..100
  /\ \A e \in Exchanges : response[e].status = 200 => response[e].lead_score \in 0..100

\* C2: after every update of a lead's row the stored status is a function of the
\* stored score and the intent of the exchange that wrote it: not_interested when the
\* intent is not_interested, whatever the score; else hot from 70, warm from 40, cold
\* below; the score and the status of the row are the ones this exchange computed
C2_StatusFollowsScore ==
  [][\A e \in Exchanges :
       Updated(e) =>
         LET row == leads'[Req(e).lead_id]
             intent == responder[e].intent.intent
         IN /\ row.lead_status =
                 IF intent = "not_interested" THEN "not_interested"
                 ELSE IF row.lead_score >= 70 THEN "hot"
                 ELSE IF row.lead_score >= 40 THEN "warm"
                 ELSE "cold"
            /\ row.lead_score = scored'[e].newScore
            /\ row.lead_status = scored'[e].newStatus]_vars

\* an exchange with intent not_interested has overwritten the row another exchange
\* wrote while it ran, and the row is not_interested at a score of 40 or more
C2_Witness ==
  \E e, f \in Exchanges :
    /\ e # f
    /\ pc[e] = "activity"
    /\ response[f].status = 200
    /\ response[f].intent = "pricing_inquiry"
    /\ responder[e].intent.intent = "not_interested"
    /\ leads["L1"].lead_status = "not_interested"
    /\ leads["L1"].lead_score >= 40
    /\ leads["L1"].lead_score = scored[e].newScore

\* C3: for the six intents of the table, calculateLeadScore(previous, turnCount,
\* intent) is clamp(previous + delta(intent) + min(3 * turnCount, 20), 0, 100) with
\* delta +15 pricing_inquiry, +25 demo_request, +10 feature_inquiry, +20 follow_up,
\* -30 not_interested, +5 general_inquiry; the bonus is added whatever the intent,
\* and no smaller turnCount gives a larger score
C3_ScoreFormula ==
  (scorer.returned /\ scorer.intent \in KnownIntents) =>
    LET previous == IF scorer.lead.lead_score = Null THEN 0 ELSE scorer.lead.lead_score
        delta == CASE scorer.intent = "pricing_inquiry" -> 15
                   [] scorer.intent = "demo_request" -> 25
                   [] scorer.intent = "feature_inquiry" -> 10
                   [] scorer.intent = "follow_up" -> 20
                   [] scorer.intent = "not_interested" -> 0 - 30
                   [] scorer.intent = "general_inquiry" -> 5
        bonus == IF 3 * scorer.messageCount < 20 THEN 3 * scorer.messageCount ELSE 20
        raw == previous + delta + bonus
    IN /\ scorer.newScore = IF raw < 0 THEN 0 ELSE IF raw > 100 THEN 100 ELSE raw
       /\ \A fewer \in 0..scorer.messageCount :
            calculateLeadScore(scorer.lead, fewer, scorer.intent) <= scorer.newScore

\* the scorer returned 40 for previous 50, not_interested and the largest
\* messageCount: the bonus, capped at 20, was added to a negative delta
C3_Witness ==
  /\ scorer.returned
  /\ scorer.lead.lead_score = 50
  /\ scorer.intent = "not_interested"
  /\ scorer.messageCount = MaxMessageCount
  /\ scorer.newScore = 40

\* C4: the turn count the handler gives to the scorer is the lead's previous message
\* count plus one, so the score it computes for the lead's n-th message is
\* clamp(previous score + delta(intent) + min(3 * n, 20)): 95 for "I want a demo" as
\* message 5 of a lead at score 55
C4_BonusCountsMessages ==
  \A e \in Exchanges :
    (pc[e] = "activity" /\ responder[e].intent.intent \in KnownIntents) =>
      LET n == lead[e].total_messages + 1
          raw == PreviousScore(lead[e]) + intentScores[responder[e].intent.intent]
                   + Min(3 * n, 20)
      IN scored[e].newScore = Max(0, Min(100, raw))

\* the exchange e has just run its insert into leads
Inserted(e) == pc[e] = "insert_lead" /\ pc'[e] # "insert_lead"

\* the exchange e, which inserted the row of its lead, has just returned
CreatorReturned(e) ==
  /\ pc[e] = "activity"
  /\ pc'[e] = "done"
  /\ Req(e).lead_id \in DOMAIN leads
  /\ leads[Req(e).lead_id].exchange = e

\* the step of e left leads with one more row, for e's lead id, with score 0, status
\* cold and no messages, and e goes on to the history query
CreatedLead(e) ==
  LET id == Req(e).lead_id
  IN /\ DOMAIN leads' = DOMAIN leads \cup {id}
     /\ \A l \in DOMAIN leads : leads'[l] = leads[l]
     /\ leads'[id].email = Req(e).lead_info.email
     /\ leads'[id].lead_score = 0
     /\ leads'[id].lead_status = "cold"
     /\ leads'[id].total_messages = 0
     /\ pc'[e] = "load_history"

Arrived(e) == pc[e] = "idle" /\ pc'[e] # "idle"

C7_NotFoundLeavesStore ==
  [][\A e \in Exchanges :
       (/\ pc[e] = "select_lead"
        /\ pc'[e] # "select_lead"
        /\ Req(e).lead_id \notin DOMAIN leads
        /\ Req(e).lead_info.email = "") =>
         /\ pc'[e] = "done"
         /\ response'[e].status = 404
         /\ storeCalls'[e] = 1
         /\ completionCalls'[e] = 0
         /\ UNCHANGED <<leads, conversations, lead_activities>>]_vars

\* with an API key set, a request for the unknown lead L1 without a profile was
\* answered 404 after one call to the store and none to the completion service
C7_Witness ==
  \E e \in Exchanges :
    /\ openaiApiKey
    /\ pc[e] = "done"
    /\ request[e] = 2
    /\ response[e].status = 404
    /\ storeCalls[e] = 1
    /\ completionCalls[e] = 0
    /\ "L1" \notin DOMAIN leads

\* C8: whenever the completion call failed (fetch rejected, status not ok, body not
\* JSON, no choices[0].message, no content) the handler goes on with the rule-based
\* classification, the template reply and the mapped next action, and the caller
\* gets a 200 response that carries them
C8_FailOpen ==
  \A e \in Exchanges :
    completionError[e] # "" =>
      LET rule == Classified[Req(e).message]
      IN /\ pc[e] \in {"user_turn", "agent_turn", "update_lead", "activity", "done"}
         /\ responder[e].intent = rule
         /\ responder[e].reply = [template |-> rule.intent, name |-> lead[e].name]
         /\ responder[e].nextAction = actions[rule.intent]
         /\ pc[e] = "done" =>
              /\ response[e].status = 200
              /\ response[e].intent = rule.intent
              /\ response[e].intent \in KnownIntents
              /\ response[e].reply = responder[e].reply
              /\ response[e].next_action = actions[rule.intent]

\* the completion endpoint's body was not JSON for "What's the pricing?", and the
\* caller got 200 with pricing_inquiry and offer_demo
C8_Witness ==
  \E e \in Exchanges :
    /\ completionError[e] = "Failed to parse OpenAI API response as JSON"
    /\ pc[e] = "done"
    /\ request[e] = 1
    /\ response[e].status = 200
    /\ response[e].intent = "pricing_inquiry"
    /\ response[e].next_action = "offer_demo"

\* C9: an exchange one of whose writes after lead resolution (user turn, agent turn,
\* lead update, activity) failed is answered with an internal error, never with a
\* success response
C9_FailedWriteSurfaces ==
  \A e \in Exchanges :
    (pc[e] = "done" /\ failedWrites[e] # {}) => response[e].status = 500

\* C10: the body of every internal-error response carries the generic message only
C10_GenericMessageOnly ==
  \A e \in Exchanges :
    (pc[e] = "done" /\ response[e].status = 500) =>
      response[e].error = "Internal server error"

\* C11: the intent an exchange returns to the caller, stores on the user turn and
\* gives to the scorer is one of pricing_inquiry, demo_request, feature_inquiry,
\* follow_up, not_interested, general_inquiry, whatever the completion text
C11_IntentInClosedSet ==
  /\ \A e \in Exchanges :
       /\ response[e].status = 200 => response[e].intent \in KnownIntents
       /\ pc[e] = "activity" => responder[e].intent.intent \in KnownIntents
  /\ \A i \in 1..Len(conversations) :
       conversations[i].sender = "user" => conversations[i].intent \in KnownIntents

\* the model-backed path gave the result: the key is set and the endpoint answered
\* with a content
ModelPath == openaiApiKey /\ parser.completion.content # ""

\* C12: the confidence of the responder's result is a number from 0 to 1 (0 to 100
\* hundredths): 0.75 on the model-backed path when the content has no Confidence
\* label, and 0.6 or min(0.95, 0.5 + 0.3k) on the rule-based path
C12_ConfidenceInRange ==
  parser.responded =>
    LET confidence == parser.result.intent.confidence
    IN /\ confidence \in 0..100
       /\ (ModelPath /\ confidenceMatch(Chars(parser.completion.content)) = << >>)
            => confidence = 75
       /\ ~ModelPath => confidence \in {60, 80, 95}

\* C13: detectIntentRuleBased(message) equals the reference: over the lower-cased
\* message, k is the number of keywords of an intent that occur in it, an intent with
\* k >= 1 has confidence min(0.95, 0.5 + 0.3k), the strictly highest confidence wins
\* and the earlier intent of the table order pricing_inquiry, demo_request,
\* feature_inquiry, follow_up, not_interested keeps a tie; with no match the result is
\* general_inquiry at 0.6 with no keywords; a message that matches pricing keywords
\* alone is pricing_inquiry at 0.8 or more
C13_ClassifierReference ==
  parser.classified =>
    LET order == <<"pricing_inquiry", "demo_request", "feature_inquiry", "follow_up",
                   "not_interested">>
        low == toLowerCase(Chars(parser.message))
        hits(i) == {j \in 1..Len(intents[i].keywords) : includes(low, intents[i].keywords[j])}
        k(i) == Cardinality(hits(i))
        conf(i) == IF 50 + 30 * k(i) > 95 THEN 95 ELSE 50 + 30 * k(i)
        matched == {i \in 1..5 : k(i) >= 1}
        got == parser.intentResult
    IN /\ Len(intents) = 5
       /\ \A i \in 1..5 : intents[i].intent = order[i]
       /\ matched = {} =>
            got = [intent |-> "general_inquiry", confidence |-> 60, keywords |-> << >>]
       /\ matched # {} =>
            \E w \in matched :
              /\ \A i \in matched : conf(i) < conf(w) \/ (conf(i) = conf(w) /\ w <= i)
              /\ got.intent = order[w]
              /\ got.confidence = conf(w)
              /\ Len(got.keywords) = k(w)
              /\ \A n \in 1..Len(got.keywords) :
                   \E j \in hits(w) : Chars(got.keywords[n]) = intents[w].keywords[j]
       /\ matched = {1} => (got.intent = "pricing_inquiry" /\ got.confidence >= 80)

\* "price cost demo trial" has two pricing keywords and two demo keywords, both at
\* the cap 0.95, and was classified pricing_inquiry
C13_Witness ==
  /\ parser.classified
  /\ parser.message = M_captie
  /\ parser.intentResult.intent = "pricing_inquiry"
  /\ parser.intentResult.confidence = 95
  /\ parser.intentResult.keywords = <<"price", "cost">>

\* C14: the conversationHistory an exchange loads is the last five rows of the
\* requesting lead's log, or all of them when the log has fewer, oldest first and
\* with no row of another lead (empty when the query failed); it holds at most five
\* rows and stays as loaded until the exchange returns
C14_HistoryIsLastFive ==
  [][\A e \in Exchanges :
       /\ (pc[e] = "load_history" /\ pc'[e] # "load_history") =>
            LET id == Req(e).lead_id
                Mine(t) == t.lead_id = id
                log == SelectSeq(conversations, Mine)
                n == Len(log)
                h == conversationHistory'[e]
            IN IF faults' # faults THEN h = << >>
               ELSE /\ Len(h) = IF n < 5 THEN n ELSE 5
                    /\ \A i \in 1..Len(h) :
                         /\ h[i].message = log[n - Len(h) + i].message
                         /\ h[i].sender = log[n - Len(h) + i].sender
       /\ Len(conversationHistory'[e]) <= 5
       /\ pc[e] \in {"completion", "user_turn", "agent_turn", "update_lead", "activity"} =>
            conversationHistory'[e] = conversationHistory[e]]_vars

\* an exchange of lead L1, whose log has eight rows or more in a table that holds
\* rows of lead L3 too, holds five rows of L1: they start with an agent turn and end
\* with the agent's latest reply
C14_Witness ==
  \E e \in Exchanges :
    /\ pc[e] \in {"completion", "user_turn"}
    /\ Req(e).lead_id = "L1"
    /\ \E i \in 1..Len(conversations) : conversations[i].lead_id = "L3"
    /\ Len(conversationHistory[e]) = 5
    /\ conversationHistory[e][1].sender = "agent"
    /\ conversationHistory[e][4].sender = "user"
    /\ conversationHistory[e][4].message = [text |-> M_not_interested]
    /\ conversationHistory[e][5].sender = "agent"
    /\ \A i \in 1..5 : conversationHistory[e][i].message \in
         {[text |-> m] : m \in Messages} \cup {[template |-> t, name |-> "Asha"] : t \in KnownIntents}

\* C15: the next action of the responder's result is the content's Next Action label
\* (without the white space around it) when the model-backed path gave the result
\* and the content has one; in every other case it is the mapping of the result's
\* intent: offer_demo, schedule_demo, share_documentation, schedule_call, mark_cold
\* for the five table intents and continue_conversation for every other intent
C15_NextAction ==
  parser.responded =>
    LET r == parser.result
        label == actionMatch(Chars(parser.completion.content))
        mapped == CASE r.intent.intent = "pricing_inquiry" -> "offer_demo"
                    [] r.intent.intent = "demo_request" -> "schedule_demo"
                    [] r.intent.intent = "feature_inquiry" -> "share_documentation"
                    [] r.intent.intent = "follow_up" -> "schedule_call"
                    [] r.intent.intent = "not_interested" -> "mark_cold"
                    [] OTHER -> "continue_conversation"
    IN IF ModelPath /\ label.found
       THEN Chars(r.nextAction) = trim(label.text)
       ELSE r.nextAction = mapped

\* C16: when the content ends in meta text that one of the cleanupPatterns matches,
\* the reply of the model-backed path contains neither "suggested next action" nor
\* "next action:", in any letter case
C16_ReplyHasNoMarker ==
  (parser.responded /\ ModelPath /\ earliestIndex(Chars(parser.completion.content)) # 0) =>
    \/ "text" \notin DOMAIN parser.result.reply
    \/ LET low == toLowerCase(Chars(parser.result.reply.text))
       IN /\ ~includes(low, K_suggested_next_action)
          /\ ~includes(low, K_next_action \o <<":">>)

\* C17: no step of an exchange writes the status converted: a row an exchange
\* inserts or whose status it changes, the status an exchange computed and the
\* status it returns are cold, warm, hot or not_interested
C17_NeverWritesConverted ==
  [][LET written == {"cold", "warm", "hot", "not_interested"}
     IN /\ \A id \in DOMAIN leads' :
             (id \notin DOMAIN leads \/ leads'[id].lead_status # leads[id].lead_status)
               => leads'[id].lead_status \in written
        /\ \A e \in Exchanges :
             /\ Updated(e) => leads'[Req(e).lead_id].lead_status \in written
             /\ pc'[e] = "activity" => scored'[e].newStatus \in written
             /\ response'[e].status = 200 => response'[e].lead_status \in written]_vars

\* an exchange has brought its lead to the score 100 and written the status hot
C17_Witness ==
  \E e \in Exchanges :
    /\ pc[e] = "done"
    /\ response[e].status = 200
    /\ "update_lead" \notin failedWrites[e]
    /\ response[e].lead_score = 100
    /\ response[e].lead_status = "hot"
    /\ leads[Req(e).lead_id].lead_score = 100
    /\ leads[Req(e).lead_id].lead_status = "hot"

\* C18: total_messages of a lead never decreases, and the update of an exchange
\* that completes leaves it one above the value the row held before the update
C18_CounterMonotonic ==
  [][/\ \A id \in DOMAIN leads :
          /\ id \in DOMAIN leads'
          /\ leads'[id].total_messages >= leads[id].total_messages
     /\ \A e \in Exchanges :
          Updated(e) =>
            leads'[Req(e).lead_id].total_messages = leads[Req(e).lead_id].total_messages + 1]_vars

\* C19: an exchange calls the completion endpoint at most once, and never when no
\* API key is set: its responder result is then the rule-based one; after a failed
\* call the exchange has left the call behind with one call made
C19_CompletionCalls ==
  \A e \in Exchanges :
    /\ completionCalls[e] <= 1
    /\ ~openaiApiKey =>
         /\ completionCalls[e] = 0
         /\ pc[e] # "completion"
         /\ pc[e] \in {"user_turn", "agent_turn", "update_lead", "activity"} =>
              responder[e] = RuleBased(Req(e).message, lead[e])
    /\ pc[e] = "completion" => completionCalls[e] = 0
    /\ completionError[e] # "" => (completionCalls[e] = 1 /\ pc[e] # "completion")

\* with the key set, an exchange whose one call was rejected by the network has
\* returned 200
C19_Witness ==
  \E e \in Exchanges :
    /\ openaiApiKey
    /\ completionError[e] = "fetch failed"
    /\ completionCalls[e] = 1
    /\ pc[e] = "done"
    /\ response[e].status = 200

\* C20: every exchange that has passed validation and lead resolution returns a
\* response, whether the completion endpoint answers or not
C20_EventuallyReturns ==
  \A e \in Exchanges : (pc[e] = "load_history") ~> (pc[e] \in {"done", "closed"})

\* C21: the update of an exchange overwrites the lead's score and status with the pair
\* it computed from the row it read when it started, whatever other exchanges of the
\* lead have written since: the row then holds that pair, and the score is the read
\* score plus this exchange's delta and bonus, clamped, with nothing of the others
C21_LastWriteWins ==
  [][\A e \in Exchanges :
       Updated(e) =>
         LET row == leads'[Req(e).lead_id]
             intent == responder[e].intent.intent
             read == lead[e].lead_score
             delta == CASE intent = "pricing_inquiry" -> 15
                        [] intent = "demo_request" -> 25
                        [] intent = "feature_inquiry" -> 10
                        [] intent = "follow_up" -> 20
                        [] intent = "not_interested" -> 0 - 30
                        [] OTHER -> 5
             turns == 3 * (Len(conversationHistory[e]) + 1)
             raw == read + delta + (IF turns < 20 THEN turns ELSE 20)
             score == IF raw < 0 THEN 0 ELSE IF raw > 100 THEN 100 ELSE raw
         IN /\ row.lead_score = score
            /\ row.lead_status = IF intent = "not_interested" THEN "not_interested"
                                 ELSE IF score >= 70 THEN "hot"
                                 ELSE IF score >= 40 THEN "warm" ELSE "cold"]_vars

\* two exchanges of lead L1 both read the score 55 and both updated the row; the
\* pricing inquiry wrote last: the row holds 88 and hot, and nothing of the other's
\* not_interested
C21_Witness ==
  \E e, f \in Exchanges :
    /\ e # f
    /\ request[e] = 1 /\ request[f] = 3
    /\ pc[e] \in {"activity", "done"} /\ pc[f] \in {"activity", "done"}
    /\ lead[e].lead_score = 55 /\ lead[f].lead_score = 55
    /\ scored[e].newScore = 88 /\ scored[f].newScore = 43
    /\ leads["L1"].lead_score = 88
    /\ leads["L1"].lead_status = "hot"

\* the writes of exchange e that the store holds
UserTurnWritten(e) ==
  \E i \in 1..Len(conversations) :
    conversations[i].exchange = e /\ conversations[i].sender = "user"
AgentTurnWritten(e) ==
  \E i \in 1..Len(conversations) :
    conversations[i].exchange = e /\ conversations[i].sender = "agent"
LeadUpdateWritten(e) ==
  /\ pc[e] = "activity" \/ (pc[e] = "done" /\ response[e].status = 200)
  /\ "update_lead" \notin failedWrites[e]
ActivityWritten(e) ==
  \E i \in 1..Len(lead_activities) : lead_activities[i].exchange = e

\* C22: the four writes of an exchange (user turn, agent turn, lead update, activity)
\* are one transaction: in every state the store holds all four or none of them
C22_AtomicWrites ==
  \A e \in Exchanges :
    \/ UserTurnWritten(e) /\ AgentTurnWritten(e) /\ LeadUpdateWritten(e) /\ ActivityWritten(e)
    \/ ~UserTurnWritten(e) /\ ~AgentTurnWritten(e) /\ ~LeadUpdateWritten(e)
         /\ ~ActivityWritten(e)

\* C23: the five messages of the guide, sent one after the other for a new lead,
\* return the scores 15, 43, 56, 79, 49, the statuses cold, warm, warm, hot,
\* not_interested and the next actions offer_demo, schedule_demo,
\* share_documentation, schedule_call, mark_cold
C23_GuideResponses ==
  \A e \in Exchanges :
    (request[e] \in GuideRequests /\ response[e].status = 200) =>
      LET n == request[e] - 7
      IN /\ response[e].lead_score = <<15, 43, 56, 79, 49>>[n]
         /\ response[e].lead_status = <<"cold", "warm", "warm", "hot", "not_interested">>[n]
         /\ response[e].next_action =
              <<"offer_demo", "schedule_demo", "share_documentation", "schedule_call",
                "mark_cold">>[n]

\* C24: the log holds the turns of an exchange as a pair: an agent turn has the user
\* turn of its exchange before it, and once an exchange has responded with success
\* its user turn has its agent turn
C24_TurnsInPairs ==
  /\ \A i \in 1..Len(conversations) :
       (conversations[i].sender = "agent" /\ conversations[i].exchange # 0) =>
         \E j \in 1..(i - 1) :
           /\ conversations[j].sender = "user"
           /\ conversations[j].exchange = conversations[i].exchange
  /\ \A e \in Exchanges :
       (pc[e] = "done" /\ response[e].status = 200 /\ UserTurnWritten(e))
         => AgentTurnWritten(e)

\* C25: when an exchange returns 200 the store holds exactly one user turn of it, with
\* the message, the intent and the confidence and no next action; one agent turn, with
\* the reply and the next action and no intent or confidence; the lead's row with the
\* returned score and status and one message more than the exchange read; and one
\* activity whose type is the intent and whose details are the first 100 characters
\* of the message and the confidence. No step changes or removes a logged turn or
\* activity, and a lead's row changes only by the update of an exchange of that lead
C25_SuccessWrites ==
  [][/\ \A e \in Exchanges :
          (pc[e] = "activity" /\ pc'[e] = "done" /\ response'[e].status = 200) =>
            LET id == Req(e).lead_id
                message == Req(e).message
                users == {i \in 1..Len(conversations') :
                            conversations'[i].exchange = e /\ conversations'[i].sender = "user"}
                agents == {i \in 1..Len(conversations') :
                             conversations'[i].exchange = e /\ conversations'[i].sender = "agent"}
                acts == {i \in 1..Len(lead_activities') : lead_activities'[i].exchange = e}
                n == Len(Chars(message))
            IN /\ Cardinality(users) = 1
               /\ \A i \in users :
                    /\ conversations'[i].lead_id = id
                    /\ conversations'[i].message = [text |-> message]
                    /\ conversations'[i].intent = response'[e].intent
                    /\ conversations'[i].confidence = response'[e].confidence
                    /\ "next_action" \notin DOMAIN conversations'[i]
               /\ Cardinality(agents) = 1
               /\ \A i \in agents :
                    /\ conversations'[i].lead_id = id
                    /\ conversations'[i].message = response'[e].reply
                    /\ conversations'[i].next_action = response'[e].next_action
                    /\ "intent" \notin DOMAIN conversations'[i]
                    /\ "confidence" \notin DOMAIN conversations'[i]
               /\ leads'[id].lead_score = response'[e].lead_score
               /\ leads'[id].lead_status = response'[e].lead_status
               /\ leads'[id].total_messages = lead[e].total_messages + 1
               /\ Cardinality(acts) = 1
               /\ \A i \in acts :
                    /\ lead_activities'[i].lead_id = id
                    /\ lead_activities'[i].activity_type = response'[e].intent
                    /\ Chars(lead_activities'[i].details.message) =
                         SubSeq(Chars(message), 1, IF n < 100 THEN n ELSE 100)
                    /\ lead_activities'[i].details.confidence = response'[e].confidence
     /\ Len(conversations') >= Len(conversations)
     /\ \A i \in 1..Len(conversations) : conversations'[i] = conversations[i]
     /\ Len(lead_activities') >= Len(lead_activities)
     /\ \A i \in 1..Len(lead_activities) : lead_activities'[i] = lead_activities[i]
     /\ \A id \in DOMAIN leads :
          /\ id \in DOMAIN leads'
          /\ leads'[id] # leads[id] =>
               \E e \in Exchanges : Updated(e) /\ Req(e).lead_id = id]_vars

\* C26: an exchange whose intent is none of the six known intents is handled as
\* general_inquiry: its template is the general_inquiry template, its mapped next
\* action is continue_conversation (the completion's own Next Action label aside),
\* and its score is the score read plus 5 plus the bonus, clamped
C26_UnknownIntentIsGeneral ==
  \A e \in Exchanges :
    (pc[e] = "done" /\ response[e].status = 200 /\ response[e].intent \notin KnownIntents) =>
      LET intent == response[e].intent
          read == IF lead[e].lead_score = Null THEN 0 ELSE lead[e].lead_score
          turns == 3 * (Len(conversationHistory[e]) + 1)
          raw == read + 5 + (IF turns < 20 THEN turns ELSE 20)
      IN /\ generateRuleBasedResponse(intent, lead[e]) =
              generateRuleBasedResponse("general_inquiry", lead[e])
         /\ determineNextAction(intent) = "continue_conversation"
         /\ response[e].lead_score = IF raw > 100 THEN 100 ELSE raw

\* C27: on the model-backed path a content without an Intent label gets the intent the
\* rule-based classifier gives to the user's message, and a content whose cleaned
\* reply is empty gets the template of the resolved intent as its reply
C27_ModelPathFallbacks ==
  (parser.responded /\ ModelPath) =>
    LET aiResponse == Chars(parser.completion.content)
        r == parser.result
    IN /\ intentMatch(aiResponse) = << >> =>
            r.intent.intent = detectIntentRuleBased(parser.message).intent
       /\ (CleanReply(aiResponse) = << >> /\ r.intent.intent \in KnownIntents) =>
            r.reply = [template |-> r.intent.intent, name |-> TextLead.name]
       /\ CleanReply(aiResponse) # << >> => r.reply = [text |-> Str(CleanReply(aiResponse))]

\* the content "Next Action: send the deck" has no Intent label and no reply: for the
\* message "I want a demo" the result is demo_request with the demo_request template
C27_Witness ==
  /\ parser.responded
  /\ ModelPath
  /\ parser.completion.content = C_action
  /\ parser.message = M_demo
  /\ parser.result.intent.intent = "demo_request"
  /\ parser.result.reply = [template |-> "demo_request", name |-> "Asha"]
  /\ parser.result.nextAction = "send the deck"

\* exchange 2 has answered 200 to the message exchange 1 logged for the same lead,
\* with no API key and no failed store call
Resent ==
  /\ pc[2] = "done"
  /\ response[2].status = 200
  /\ ~openaiApiKey
  /\ faults = 0
  /\ \E i \in 1..Len(conversations) :
       /\ conversations[i].exchange = 1
       /\ conversations[i].sender = "user"
       /\ conversations[i].lead_id = Req(2).lead_id
       /\ conversations[i].message = [text |-> Req(2).message]

\* C28: the same message sent a second time for the same lead is classified as the
\* first time, and the store is changed again: a second user turn and agent turn and
\* a second activity are appended after the first ones, and the lead's row carries
\* the intent's delta and the increment of total_messages twice
C28_ResendAppliesAgain ==
  Resent =>
    LET id == Req(2).lead_id
        Turns(e, who) == {i \in 1..Len(conversations) :
                            /\ conversations[i].exchange = e
                            /\ conversations[i].sender = who
                            /\ conversations[i].lead_id = id}
        Acts(e) == {i \in 1..Len(lead_activities) :
                      lead_activities[i].exchange = e /\ lead_activities[i].lead_id = id}
        old == {i \in 1..Len(conversations) :
                  conversations[i].exchange = 0 /\ conversations[i].lead_id = id}
        start == IF leads[id].exchange = 0 THEN SeededLeads[id]
                 ELSE [lead_score |-> 0, total_messages |-> 0]
        intent == response[2].intent
        delta == CASE intent = "pricing_inquiry" -> 15
                   [] intent = "demo_request" -> 25
                   [] intent = "feature_inquiry" -> 10
                   [] intent = "follow_up" -> 20
                   [] intent = "not_interested" -> 0 - 30
                   [] OTHER -> 5
        Bonus(rows) == LET n == 3 * ((IF rows < 5 THEN rows ELSE 5) + 1)
                       IN IF n < 20 THEN n ELSE 20
        Clamp(x) == IF x < 0 THEN 0 ELSE IF x > 100 THEN 100 ELSE x
        first == Clamp(start.lead_score + delta + Bonus(Cardinality(old)))
        second == Clamp(first + delta + Bonus(Cardinality(old) + 2))
    IN /\ \A e \in {1, 2}, who \in {"user", "agent"} : Cardinality(Turns(e, who)) = 1
       /\ \A i \in Turns(1, "user"), j \in Turns(2, "user") :
            /\ i < j
            /\ conversations[j].message = conversations[i].message
            /\ conversations[j].intent = conversations[i].intent
            /\ conversations[j].confidence = conversations[i].confidence
            /\ conversations[j].intent = intent
       /\ \A i \in Turns(1, "agent"), j \in Turns(2, "agent") :
            i < j /\ conversations[j].message = conversations[i].message
       /\ \A e \in {1, 2} : Cardinality(Acts(e)) = 1
       /\ \A i \in Acts(1), j \in Acts(2) :
            /\ i < j
            /\ lead_activities[j].activity_type = lead_activities[i].activity_type
            /\ lead_activities[j].details = lead_activities[i].details
       /\ lead[2].lead_score = first
       /\ leads[id].lead_score = second
       /\ response[2].lead_score = second
       /\ leads[id].total_messages = start.total_messages + 2

\* "I am not interested" was sent twice for lead L1 (score 55, 4 messages): the log
\* holds the message twice more, and the row holds 31 = 55 - 30 + 18 - 30 + 18 and 6
C28_Witness ==
  /\ Resent
  /\ request[2] = 3
  /\ response[2].intent = "not_interested"
  /\ lead[2].lead_score = 43
  /\ leads["L1"].lead_score = 31
  /\ leads["L1"].total_messages = 6
  /\ Len(conversations) = Len(SeededConversations) + 4
  /\ Len(lead_activities) = Len(SeededActivities) + 2

\* C29: a success response carries the score and the status the store holds for the
\* lead when the exchange responds
C29_ResponseMatchesStore ==
  \A e \in Exchanges :
    (pc[e] = "done" /\ response[e].status = 200) =>
      /\ Req(e).lead_id \in DOMAIN leads
      /\ leads[Req(e).lead_id].lead_score = response[e].lead_score
      /\ leads[Req(e).lead_id].lead_status = response[e].lead_status

\* the first position of kw in s, 0 when s does not contain it
FirstAt(s, kw) ==
  LET at == {i \in 1..Len(s) : OccursAt(s, kw, i)}
  IN IF at = {} THEN 0 ELSE CHOOSE i \in at : \A j \in at : i <= j

\* the content names Response, Intent, Confidence and Next Action in this order
LabelsInOrder(aiResponse) ==
  LET low == toLowerCase(aiResponse)
  IN /\ 0 < FirstAt(low, L_response)
     /\ FirstAt(low, L_response) < FirstAt(low, L_intent)
     /\ FirstAt(low, L_intent) < FirstAt(low, L_confidence)
     /\ FirstAt(low, L_confidence) < FirstAt(low, L_next_action)

\* C30: when the content carries the four labels in the requested order, the reply of
\* the model-backed path is the text of the Response field alone: it holds nothing
\* of the Intent, Confidence and Next Action fields
C30_ReplyIsResponseField ==
  (parser.responded /\ ModelPath /\ LabelsInOrder(Chars(parser.completion.content))) =>
    /\ "text" \in DOMAIN parser.result.reply
    /\ LET low == toLowerCase(Chars(parser.result.reply.text))
       IN /\ ~includes(low, L_intent)
          /\ ~includes(low, L_confidence)
          /\ ~includes(low, L_next_action)

====
